---------------------------- MODULE Spec2Model ----------------------------
(***************************************************************************)
(* A model of the example drivers of the repository: the Fibonacci proof   *)
(* pipeline (fib_example), the increment trace loader (fib2), the          *)
(* hash-AIR proving entry points (examples/src/proofs.rs) and the          *)
(* command-line front-end (examples/examples/prove_prime_field_31.rs).     *)
(***************************************************************************)
EXTENDS Integers, Sequences, FiniteSets, TLC

VARIABLES
    pc,               \* position of the running entry point
    fn,               \* the entry point that was called
    start_a,          \* prover-side arguments (u64)
    start_b,
    num_steps,        \* usize
    expected_result,  \* u64
    trace,            \* the matrix returned by generate_fibonacci_trace
    proof,            \* the proof returned by prove
    v_args,           \* the arguments verify_fibonacci_proof was called with
    result,           \* what the entry point returned
    args,             \* the command line of the front-end
    trace_height,     \* 1 << args.log_trace_length
    rng,              \* how many draws the seeded generator has given
    entry,            \* the proving entry point that runs
    proof_goal,       \* its arguments
    dft,
    num_hashes,
    perm16,
    perm24,
    val_mmcs,         \* its locals
    fri_params,
    h_trace,
    config,
    reported,         \* the proof report_proof_size was given
    calls,            \* the steps the entry point and main have made, in order
    exit_status,      \* how the front-end process ended
    file,             \* the trace.txt parse_trace reads
    line_num,         \* lines consumed
    data,             \* the Vec of parse_trace
    num_rows,
    matrix,           \* the matrix parse_trace returned
    test_cases,       \* the list batch_prove_fibonacci was given
    case_index,       \* how many of its cases have been started
    use_keccak,       \* the hash choice p3_generate_proof was given
    panic_message,    \* the message of the assertion that stopped trace generation
    returned_result,  \* the u64 generate_fibonacci_trace_with_result returned
    stderr,           \* the warnings parse_trace has written
    log_iter,         \* the loop counter of the demo's main
    printed,          \* the outcomes the demo's main has printed
    config_opt,       \* the Option<FibonacciConfig> given to prove_fibonacci_knowledge
    v_config_opt,     \* the Option<FibonacciConfig> given to verify_fibonacci_proof
    proof2,           \* the proof of a second run with the same arguments
    miden_trace,      \* the execution trace given to the trace converter
    converted,        \* what TraceConverter::convert returned
    stats,            \* what TraceConverter::trace_stats returned
    wasm_n,           \* the n given to the fib-wasm entry point
    wasm_expected,    \* the expected_result given to the fib-wasm entry point
    wasm_result       \* what the fib-wasm entry point returned

fibLocals == <<start_a, start_b, num_steps, expected_result, trace, v_args>>

hashVars == <<args, trace_height, rng, entry, proof_goal, dft, num_hashes, perm16,
              perm24, val_mmcs, fri_params, h_trace, config, reported, calls,
              exit_status>>

loaderVars == <<file, line_num, data, num_rows, matrix, stderr>>

demoVars == <<log_iter, printed>>
configVars == <<config_opt, v_config_opt, proof2>>
converterVars == <<miden_trace, converted, stats>>
wasmVars == <<wasm_n, wasm_expected, wasm_result>>
extVars == <<test_cases, case_index, use_keccak, panic_message, returned_result, demoVars,
            configVars, converterVars, wasmVars>>

-----------------------------------------------------------------------------
(* Bounds of the model. *)

\* largest num_steps tried
MaxSteps == 8

\* largest log_trace_length tried
MaxLog == 10

\* most rows in a trace file
MaxRows == 6
MaxLogHeight == 6

-----------------------------------------------------------------------------
(* Machine integers.  A u64 is four 16-bit limbs, least significant first, *)
(* so that values at and above 2^32 are exact.                             *)

LimbBits == 4 * 4
LimbBase == 2 ^ LimbBits

\* the u64 of a small natural (below 2^31)
U64(n) == <<n % LimbBase, n \div LimbBase, 0, 0>>

\* the u64 of hi * 2^32 + a small natural
U64Hi(hi, n) == <<n % LimbBase, n \div LimbBase, hi, 0>>

\* `x as u32`: the low 32 bits
AsU32(x) == <<x[1], x[2], 0, 0>>

-----------------------------------------------------------------------------
(* The BabyBear field: residues modulo 2^31 - 2^27 + 1, kept canonical.    *)

BabyBearP == 15 * (2 ^ 27) + 1

\* x + y in the field, for canonical x and y
FAdd(x, y) == IF x >= BabyBearP - y THEN x - (BabyBearP - y) ELSE x + y

\* x * 2^16 in the field, for canonical x.  With x = (15 q + r) * 2^11 + xl
\* and 15 * 2^27 = -1 in the field, x * 2^16 = r * 2^27 + xl * 2^16 - q; no
\* intermediate value leaves the 32-bit range.
FShl16(x) ==
    LET xh == x \div (2 ^ 11)
        xl == x % (2 ^ 11)
        q  == xh \div 15
        r  == xh % 15
    IN  (r * (2 ^ 27) + xl * (2 ^ 16) - q) % BabyBearP

\* F::from_u64: the residue of the whole 64-bit value
from_u64(x) ==
    FAdd(FShl16(FAdd(FShl16(FAdd(FShl16(x[4]), x[3])), x[2])), x[1])

\* BabyBear::new(u32): the residue of a 32-bit value
BabyBearNew(x) == FAdd(FShl16(x[2]), x[1])

\* as_canonical_u64
as_canonical_u64(f) == U64(f)

-----------------------------------------------------------------------------
(* fib_example/src/trace.rs                                                *)

NUM_FIBONACCI_COLS == 2

FibonacciRow(l, r) == [left |-> l, right |-> r]

RECURSIVE is_power_of_two(_)
is_power_of_two(n) ==
    IF n = 0 THEN FALSE
    ELSE IF n = 1 THEN TRUE
    ELSE IF n % 2 = 1 THEN FALSE
    ELSE is_power_of_two(n \div 2)

RECURSIVE FillRows_Swapped(_, _, _)
\* the loop with the new left cell copied from the previous left cell
FillRows_Swapped(rows, i, n) ==
    IF i >= n THEN rows
    ELSE FillRows_Swapped([rows EXCEPT ![i + 1] =
                      FibonacciRow(rows[i].left, FAdd(rows[i].left, rows[i].right))],
                  i + 1, n)

RECURSIVE FillRows(_, _, _)
\* the loop `for i in 1..num_steps` (rows are 1-based here, so code row i is
\* rows[i + 1])
FillRows(rows, i, n) ==
    IF i >= n THEN rows
    ELSE FillRows([rows EXCEPT ![i + 1] =
                      FibonacciRow(rows[i].right, FAdd(rows[i].left, rows[i].right))],
                  i + 1, n)

Panic(msg) == [panic |-> TRUE, message |-> msg, rows |-> <<>>]
Returned(m) == [panic |-> FALSE, message |-> "", rows |-> m]

\* the generator without its first assertion: only a height of 0 is refused
generate_fibonacci_trace_Unchecked(a, b, n) ==
    IF ~(n > 0) THEN Panic("Must have at least one step")
    ELSE LET zero  == [k \in 1..n |-> FibonacciRow(0, 0)]
             first == [zero EXCEPT ![1] = FibonacciRow(from_u64(a), from_u64(b))]
         IN  Returned(FillRows(first, 1, n))

\* a panic when an assertion fails, else the matrix as a sequence of rows
generate_fibonacci_trace(a, b, n) ==
    IF ~is_power_of_two(n) THEN Panic("Number of steps must be a power of 2")
    ELSE IF ~(n > 0) THEN Panic("Must have at least one step")
    ELSE LET zero  == [k \in 1..n |-> FibonacciRow(0, 0)]
             first == [zero EXCEPT ![1] = FibonacciRow(from_u64(a), from_u64(b))]
         IN  Returned(FillRows(first, 1, n))

height(m) == Len(m)
width(m) == Cardinality(DOMAIN m[1])

\* BaseAir::width of FibonacciAir
FibonacciAirWidth == NUM_FIBONACCI_COLS

-----------------------------------------------------------------------------
(* fib_example/src/air.rs                                                  *)

\* the evaluation with the last-row constraint put on the left cell
FibonacciAirEval_LastLeft(current, next, public_values, is_first_row, is_last_row, is_transition) ==
    /\ is_first_row => current.left = public_values[1]
    /\ is_first_row => current.right = public_values[2]
    /\ is_last_row => current.left = public_values[3]
    /\ is_transition => next.left = current.right
    /\ is_transition => next.right = FAdd(current.left, current.right)

\* FibonacciAir::eval on one (current, next) pair under the row selectors
FibonacciAirEval(current, next, public_values, is_first_row, is_last_row, is_transition) ==
    LET initial_left  == public_values[1]
        initial_right == public_values[2]
        final_result  == public_values[3]
    IN  /\ is_first_row => current.left = initial_left
        /\ is_first_row => current.right = initial_right
        /\ is_last_row => current.right = final_result
        /\ is_transition => next.left = current.right
        /\ is_transition => next.right = FAdd(current.left, current.right)

\* the constraints of the AIR hold on every row of the matrix; the row after
\* the last one is the first
FibonacciConstraintsHold(m, public_values) ==
    \A i \in 1..height(m) :
        FibonacciAirEval(m[i], m[(i % height(m)) + 1], public_values,
                         i = 1, i = height(m), i # height(m))

-----------------------------------------------------------------------------
(* prove and verify of the STARK prover, and the configuration             *)

\* the state of the operating system's randomness when a configuration is
\* built
OsEntropy == {1, 2}

\* a generator that draws its seed from the operating system
SmallRng_from_os_rng(seed, os_entropy) == [stream |-> os_entropy]

\* SmallRng::seed_from_u64(seed): the stream is fixed by the seed alone
SmallRng_seed_from_u64(seed, os_entropy) == [stream |-> seed]

\* Perm::new_from_rng_128(&mut rng): the round constants are the first draws
\* of the generator
Perm_new_from_rng_128(r) == r.stream

\* SmallRng::seed_from_u64(42) and create_test_fri_params(challenge_mmcs, 2)
DEFAULT_SEED == 42
DEFAULT_LOG_FINAL_POLY_LEN == 2

create_custom_fibonacci_config(log_final_poly_len, seed, os_entropy) ==
    [seed |-> Perm_new_from_rng_128(SmallRng_seed_from_u64(seed, os_entropy)),
     log_final_poly_len |-> log_final_poly_len]

create_fibonacci_config(os_entropy) ==
    [seed |-> Perm_new_from_rng_128(SmallRng_seed_from_u64(DEFAULT_SEED, os_entropy)),
     log_final_poly_len |-> DEFAULT_LOG_FINAL_POLY_LEN]

\* Option<FibonacciConfig>: None, or Some of an instance the caller built
\* with create_custom_fibonacci_config(l, seed)
None == [some |-> FALSE, args |-> <<>>, config |-> [seed |-> 0, log_final_poly_len |-> 0]]
Some(l, seed, os_entropy) ==
    [some |-> TRUE, args |-> <<l, seed>>,
     config |-> create_custom_fibonacci_config(l, seed, os_entropy)]

\* config.unwrap_or_else(create_fibonacci_config)
unwrap_or_else(opt, os_entropy) ==
    IF opt.some THEN opt.config ELSE create_fibonacci_config(os_entropy)

NoProof == [kind |-> "none"]

\* what prove can do: a satisfying trace gives an accepting proof; a
\* violating one either aborts proving or gives a proof verify rejects
ProveOutcomes(cfg, air, m, public_values) ==
    LET sat == FibonacciConstraintsHold(m, public_values)
        prf == [kind |-> "proof", config |-> cfg, air |-> air,
                public_values |-> public_values, commit |-> m, accepting |-> sat]
    IN  IF sat THEN {prf} ELSE {prf, [kind |-> "abort"]}

verify(cfg, air, prf, public_values) ==
    IF /\ prf.kind = "proof"
       /\ prf.config = cfg
       /\ prf.air = air
       /\ prf.public_values = public_values
       /\ prf.accepting
    THEN "Ok" ELSE "Err"

-----------------------------------------------------------------------------
(* fib_example/src/prover.rs and fib_example/src/lib.rs                    *)

\* the public values prove_fibonacci_knowledge builds
ProverPublicValues(a, b, e) ==
    <<BabyBearNew(AsU32(a)), BabyBearNew(AsU32(b)), BabyBearNew(AsU32(e))>>

\* the verifier's list with start_b written where expected_result belongs
VerifierPublicValues_Dup(a, b, e) ==
    <<BabyBearNew(AsU32(a)), BabyBearNew(AsU32(b)), BabyBearNew(AsU32(b))>>

\* the public values verify_fibonacci_proof builds
VerifierPublicValues(a, b, e) ==
    <<BabyBearNew(AsU32(a)), BabyBearNew(AsU32(b)), BabyBearNew(AsU32(e))>>

\* the public values prove_fibonacci of lib.rs builds (expected_result: u32)
LibPublicValues(e) ==
    <<BabyBearNew(U64(1)), BabyBearNew(U64(1)), BabyBearNew(e)>>

RECURSIVE FibLoop(_, _, _, _)
\* the loop `for _ in 3..=n` of calculate_fibonacci
FibLoop(a, b, k, n) == IF k > n THEN b ELSE FibLoop(b, a + b, k + 1, n)

\* the numbering that starts one place later: F(0) = F(1) = 1
calculate_fibonacci_ZeroBased(n) ==
    IF n <= 1 THEN 1
    ELSE FibLoop(1, 1, 2, n)

calculate_fibonacci(n) ==
    IF n = 0 THEN 0
    ELSE IF n <= 2 THEN 1
    ELSE FibLoop(1, 1, 3, n)

\* the inputs tried
StartPairs ==
    { <<U64(1), U64(1)>>, <<U64(2), U64(3)>>, <<U64(3), U64(5)>>, <<U64(5), U64(8)>>,
      <<U64(BabyBearP - 1), U64(1)>>, <<U64Hi(1, 1), U64(1)>>, <<U64(1), U64Hi(1, 1)>> }

LastRight(a, b, n) ==
    LET m == generate_fibonacci_trace(a, b, n)
    IN  IF m.panic THEN U64(0) ELSE as_canonical_u64(m.rows[height(m.rows)].right)

ExpectedValues(a, b, n) ==
    { U64(1), U64(2), U64(8), U64(13), U64(21), U64(34), U64(99),
      U64Hi(1, 34), U64(BabyBearP + 34), U64(calculate_fibonacci(n)),
      LastRight(a, b, n) }

Args(a, b, e) == [start_a |-> a, start_b |-> b, expected_result |-> e]
NoArgs == [start_a |-> U64(0), start_b |-> U64(0), expected_result |-> U64(0)]

\* prove_and_verify_fibonacci(start_a, start_b, num_steps, expected_result)
CallProveAndVerifyFibonacci ==
    /\ pc = "idle"
    /\ \E p \in StartPairs, n \in 0..MaxSteps :
         \E e \in ExpectedValues(p[1], p[2], n) :
            /\ start_a' = p[1]
            /\ start_b' = p[2]
            /\ num_steps' = n
            /\ expected_result' = e
    /\ fn' = "prove_and_verify_fibonacci"
    /\ pc' = "fib_trace"
    /\ UNCHANGED <<trace, proof, v_args, result>>
    /\ UNCHANGED <<hashVars, loaderVars, extVars>>

\* prove_fibonacci(n, expected_result: u32) of lib.rs: the start is (1, 1)
CallProveFibonacci ==
    /\ pc = "idle"
    /\ \E n \in 0..MaxSteps :
         \E e \in ExpectedValues(U64(1), U64(1), n) :
            /\ e = AsU32(e)
            /\ num_steps' = n
            /\ expected_result' = e
    /\ start_a' = U64(1)
    /\ start_b' = U64(1)
    /\ fn' = "prove_fibonacci"
    /\ pc' = "fib_trace"
    /\ UNCHANGED <<trace, proof, v_args, result>>
    /\ UNCHANGED <<hashVars, loaderVars, extVars>>

\* prove_fibonacci_knowledge(...) whose proof a later, separate
\* verify_fibonacci_proof call checks
CallProveFibonacciKnowledge ==
    /\ pc = "idle"
    /\ \E p \in StartPairs, n \in 0..MaxSteps :
         \E e \in ExpectedValues(p[1], p[2], n) :
            /\ start_a' = p[1]
            /\ start_b' = p[2]
            /\ num_steps' = n
            /\ expected_result' = e
    /\ fn' = "prove_fibonacci_knowledge"
    /\ pc' = "fib_trace"
    /\ UNCHANGED <<trace, proof, v_args, result>>
    /\ UNCHANGED <<hashVars, loaderVars, extVars>>

\* the configurations callers build themselves: the ones of the tests of
\* config.rs, as (log_final_poly_len, seed)
CustomConfigArgs == { <<2, 42>>, <<1, 123>>, <<3, 456>> }

\* prove_fibonacci_knowledge(start_a, start_b, num_steps, expected_result,
\* Some(create_custom_fibonacci_config(l, seed)), verbose)
CallProveFibonacciKnowledgeSome ==
    /\ pc = "idle"
    /\ \E p \in { <<U64(1), U64(1)>>, <<U64(2), U64(3)>> }, n \in {2, MaxSteps} :
         \E e \in { LastRight(p[1], p[2], n), U64(99) } :
            /\ start_a' = p[1]
            /\ start_b' = p[2]
            /\ num_steps' = n
            /\ expected_result' = e
    /\ \E c \in CustomConfigArgs, os_entropy \in OsEntropy :
         config_opt' = Some(c[1], c[2], os_entropy)
    /\ fn' = "prove_fibonacci_knowledge"
    /\ pc' = "fib_trace"
    /\ UNCHANGED <<trace, proof, v_args, result>>
    /\ UNCHANGED <<hashVars, loaderVars, test_cases, case_index, use_keccak, panic_message,
                   returned_result, demoVars, v_config_opt, proof2, converterVars,
                   wasmVars>>

\* the options verify_fibonacci_proof is given for a proof made under
\* `opt`: None, or an instance built anew from the arguments of opt's
VerifierOptions(opt, os_entropy) ==
    IF opt.some THEN { None, Some(opt.args[1], opt.args[2], os_entropy) }
    ELSE { None, Some(DEFAULT_LOG_FINAL_POLY_LEN, DEFAULT_SEED, os_entropy) }

\* a second run of prove_fibonacci_knowledge with the arguments of the first
ProveFibonacciKnowledgeAgain ==
    /\ pc = "fib_verify"
    /\ fn = "prove_fibonacci_knowledge"
    /\ proof2 = NoProof
    /\ LET m == generate_fibonacci_trace(start_a, start_b, num_steps)
       IN  /\ ~m.panic
           /\ \E os_entropy \in OsEntropy :
                 LET again == IF config_opt.some
                              THEN Some(config_opt.args[1], config_opt.args[2], os_entropy)
                              ELSE None
                 IN  \E out \in ProveOutcomes(unwrap_or_else(again, os_entropy),
                                              "FibonacciAir", m.rows,
                                              ProverPublicValues(start_a, start_b,
                                                                 expected_result)) :
                        /\ out.kind = "proof"
                        /\ proof2' = out
    /\ UNCHANGED <<pc, fn, proof, result, fibLocals, hashVars, loaderVars, test_cases,
                   case_index, use_keccak, panic_message, returned_result, demoVars,
                   config_opt, v_config_opt, converterVars, wasmVars>>

\* let trace = generate_fibonacci_trace::<BabyBear>(start_a, start_b, num_steps)
GenerateTrace ==
    /\ pc = "fib_trace"
    /\ LET m == generate_fibonacci_trace(start_a, start_b, num_steps)
       IN  IF m.panic
           THEN /\ result' = "panic"
                /\ panic_message' = m.message
                /\ pc' = "done"
                /\ UNCHANGED trace
           ELSE /\ trace' = m.rows
                /\ pc' = "fib_prove"
                /\ UNCHANGED <<result, panic_message>>
    /\ UNCHANGED <<fn, start_a, start_b, num_steps, expected_result, proof, v_args>>
    /\ UNCHANGED <<hashVars, loaderVars, test_cases, case_index, use_keccak, returned_result,
                   demoVars, configVars, converterVars, wasmVars>>

\* generate_fibonacci_trace_with_result(a, b, num_steps): the trace and the
\* canonical value of the right cell of row num_steps - 1 (final_result)
GenerateFibonacciTraceWithResult ==
    /\ pc = "idle"
    /\ \E p \in StartPairs, n \in 0..MaxSteps :
         LET m == generate_fibonacci_trace(p[1], p[2], n)
         IN  /\ start_a' = p[1]
             /\ start_b' = p[2]
             /\ num_steps' = n
             /\ IF m.panic
                THEN /\ result' = "panic"
                     /\ panic_message' = m.message
                     /\ UNCHANGED <<trace, returned_result>>
                ELSE /\ trace' = m.rows
                     /\ returned_result' = LastRight(p[1], p[2], n)
                     /\ result' = "returned"
                     /\ UNCHANGED panic_message
    /\ fn' = "generate_fibonacci_trace_with_result"
    /\ pc' = "done"
    /\ UNCHANGED <<expected_result, proof, v_args>>
    /\ UNCHANGED <<hashVars, loaderVars, test_cases, case_index, use_keccak, demoVars,
                   configVars, converterVars, wasmVars>>

\* let proof = prove(&config, &air, trace, &public_values)
DoProve(public_values) ==
    /\ \E os_entropy \in OsEntropy :
       \E out \in ProveOutcomes(unwrap_or_else(config_opt, os_entropy), "FibonacciAir", trace,
                                public_values) :
         IF out.kind = "abort"
         THEN /\ result' = "panic"
              /\ pc' = "done"
              /\ UNCHANGED proof
         ELSE /\ proof' = out
              /\ pc' = "fib_verify"
              /\ UNCHANGED result
    /\ UNCHANGED <<fn, start_a, start_b, num_steps, expected_result, trace, v_args>>
    /\ UNCHANGED <<hashVars, loaderVars, extVars>>

\* prove_fibonacci_knowledge, after the trace
ProveFibonacciKnowledge ==
    /\ pc = "fib_prove"
    /\ fn \in {"prove_and_verify_fibonacci", "prove_fibonacci_knowledge",
              "batch_prove_fibonacci"}
    /\ DoProve(ProverPublicValues(start_a, start_b, expected_result))

\* prove_fibonacci of lib.rs, after the trace
ProveFibonacci ==
    /\ pc = "fib_prove"
    /\ fn = "prove_fibonacci"
    /\ DoProve(LibPublicValues(expected_result))

\* verify_fibonacci_proof(&proof, a, b, e, config): Ok(()) or Err of what
\* verify says
verify_fibonacci_proof(prf, a, b, e, opt, os_entropy) ==
    verify(unwrap_or_else(opt, os_entropy), "FibonacciAir", prf, VerifierPublicValues(a, b, e))

\* prove_and_verify_fibonacci calls verify_fibonacci_proof with its own
\* arguments and returns its result
VerifyInProveAndVerify ==
    /\ pc = "fib_verify"
    /\ fn = "prove_and_verify_fibonacci"
    /\ v_args' = Args(start_a, start_b, expected_result)
    /\ \E os_entropy \in OsEntropy :
          result' = verify_fibonacci_proof(proof, start_a, start_b, expected_result, None,
                                           os_entropy)
    /\ pc' = "done"
    /\ UNCHANGED <<fn, start_a, start_b, num_steps, expected_result, trace, proof>>
    /\ UNCHANGED <<hashVars, loaderVars, extVars>>

\* prove_fibonacci of lib.rs verifies against the public values it proved with
VerifyInProveFibonacci ==
    /\ pc = "fib_verify"
    /\ fn = "prove_fibonacci"
    /\ v_args' = Args(start_a, start_b, expected_result)
    /\ result' = verify(proof.config, "FibonacciAir", proof,
                        LibPublicValues(expected_result))
    /\ pc' = "done"
    /\ UNCHANGED <<fn, start_a, start_b, num_steps, expected_result, trace, proof>>
    /\ UNCHANGED <<hashVars, loaderVars, extVars>>

\* verify_fibonacci_proof called by itself on the proof of
\* prove_fibonacci_knowledge, with arguments of the caller's choice
VerifyFibonacciProof ==
    /\ pc = "fib_verify"
    /\ fn = "prove_fibonacci_knowledge"
    /\ \E p \in StartPairs, os_entropy \in OsEntropy :
         \E e \in ExpectedValues(p[1], p[2], num_steps) :
            \E opt \in VerifierOptions(config_opt, os_entropy) :
               /\ v_args' = Args(p[1], p[2], e)
               /\ v_config_opt' = opt
               /\ \E at_call \in OsEntropy :
                     result' = verify_fibonacci_proof(proof, p[1], p[2], e, opt, at_call)
    /\ pc' = "done"
    /\ UNCHANGED <<fn, start_a, start_b, num_steps, expected_result, trace, proof>>
    /\ UNCHANGED <<hashVars, loaderVars, test_cases, case_index, use_keccak, panic_message,
                   returned_result, demoVars, config_opt, proof2, converterVars,
                   wasmVars>>

\* one (start_a, start_b, num_steps, expected_result) tuple of a batch
Case(a, b, n, e) == [start_a |-> U64(a), start_b |-> U64(b), num_steps |-> n,
                     expected_result |-> U64(e)]

\* the lists batch_prove_fibonacci is called with: the one of
\* tests::test_batch_proving, the one of the demo, and others
TestBatch == << Case(1, 1, 4, 8), Case(1, 1, 8, 34), Case(2, 3, 2, 8) >>
DemoBatch == << Case(1, 1, 2, 2), Case(1, 1, 4, 8), Case(1, 1, 8, 34), Case(3, 5, 2, 13) >>

Batches ==
    { <<>>, TestBatch, DemoBatch,
      << Case(1, 1, 2, 2), Case(1, 1, 8, 34) >>,
      << Case(1, 1, 8, 34), Case(1, 1, 2, 2), Case(2, 3, 2, 5) >>,
      << Case(1, 1, 2, 2), Case(1, 1, 3, 3), Case(1, 1, 8, 34) >>,
      << Case(5, 8, 1, 8), Case(1, 1, 8, 99), Case(1, 1, 2, 2) >> }

\* batch_prove_fibonacci(test_cases, verbose)
CallBatchProveFibonacci ==
    /\ pc = "idle"
    /\ test_cases' \in Batches
    /\ case_index' = 0
    /\ fn' = "batch_prove_fibonacci"
    /\ pc' = "batch_loop"
    /\ UNCHANGED <<proof, result, fibLocals, hashVars, loaderVars, use_keccak, panic_message,
                   returned_result, demoVars, configVars, converterVars, wasmVars>>

\* the head of `for (i, (start_a, start_b, num_steps, expected_result)) in
\* test_cases.iter().enumerate()`: the call of prove_and_verify_fibonacci on
\* the next case, or Ok(()) after the last
BatchNextCase ==
    /\ pc = "batch_loop"
    /\ IF case_index = Len(test_cases)
       THEN /\ result' = "Ok"
            /\ pc' = "done"
            /\ UNCHANGED <<case_index, fibLocals>>
       ELSE LET c == test_cases[case_index + 1]
            IN  /\ start_a' = c.start_a
                /\ start_b' = c.start_b
                /\ num_steps' = c.num_steps
                /\ expected_result' = c.expected_result
                /\ trace' = <<>>
                /\ case_index' = case_index + 1
                /\ pc' = "fib_trace"
                /\ UNCHANGED <<result, v_args>>
    /\ UNCHANGED <<fn, proof, hashVars, loaderVars, test_cases, use_keccak, panic_message,
                   returned_result, demoVars, configVars, converterVars, wasmVars>>

\* the verify_fibonacci_proof call of the case's prove_and_verify_fibonacci:
\* an Err is returned through both `?`, an Ok goes on to the next case
VerifyInBatch ==
    /\ pc = "fib_verify"
    /\ fn = "batch_prove_fibonacci"
    /\ v_args' = Args(start_a, start_b, expected_result)
    /\ \E os_entropy \in OsEntropy :
       LET r == verify_fibonacci_proof(proof, start_a, start_b, expected_result, None,
                                       os_entropy)
       IN  IF r = "Ok"
           THEN /\ pc' = "batch_loop"
                /\ UNCHANGED result
           ELSE /\ result' = r
                /\ pc' = "done"
    /\ UNCHANGED <<fn, start_a, start_b, num_steps, expected_result, trace, proof>>
    /\ UNCHANGED <<hashVars, loaderVars, extVars>>

-----------------------------------------------------------------------------
(* examples/src/airs.rs: the hash AIRs and their dispatcher                *)

\* rounds of Keccak-f, the rows one Keccak evaluation takes
KECCAK_ROUNDS == 24

P2_LOG_VECTOR_LEN == 3
P2_VECTOR_LEN == 2 ^ P2_LOG_VECTOR_LEN

RECURSIVE PowerOfTwoFrom(_, _)
PowerOfTwoFrom(p, n) == IF p >= n THEN p ELSE PowerOfTwoFrom(2 * p, n)

\* usize::next_power_of_two: the least power of two not below n (1 for 0)
next_power_of_two(n) == PowerOfTwoFrom(1, n)

\* a trace made by the generator of `air` for n evaluations laid out on
\* `rows` rows; the returned height is padded to a power of two
HashTrace(air, n, extra_capacity_bits, rows) ==
    [gen |-> air, num_hashes |-> n, height |-> next_power_of_two(rows),
     capacity_bits |-> extra_capacity_bits]

NoHashTrace == [gen |-> "none", num_hashes |-> 0, height |-> 0, capacity_bits |-> 0]

\* Blake3Air::generate_trace_rows: one evaluation per row
Blake3Air_generate_trace_rows(n, e) == HashTrace("Blake3Air", n, e, n)

\* KeccakAir::generate_trace_rows: one evaluation takes KECCAK_ROUNDS rows
KeccakAir_generate_trace_rows(n, e) == HashTrace("KeccakAir", n, e, n * KECCAK_ROUNDS)

\* VectorizedPoseidon2Air::generate_vectorized_trace_rows: P2_VECTOR_LEN
\* evaluations per row
generate_vectorized_trace_rows(n, e) ==
    HashTrace("VectorizedPoseidon2Air", n, e, (n + P2_VECTOR_LEN - 1) \div P2_VECTOR_LEN)

\* Poseidon2Air::generate_trace_rows: one evaluation per row
Poseidon2Air_generate_trace_rows(n, e) == HashTrace("Poseidon2Air", n, e, n)

\* the AIRs a proof goal can be: a hash AIR itself, or one wrapped in the
\* ProofObjective enum
Direct(air) == [wrapper |-> "none", air |-> air]
ProofObjective(variant, air) == [wrapper |-> variant, air |-> air]
NoGoal == [wrapper |-> "unset", air |-> "none"]

\* the dispatcher with the Poseidon2 variant sent to the Keccak generator
ProofObjective_generate_trace_rows_Misrouted(self, n, extra_capacity_bits) ==
    IF self.wrapper = "Blake3"
    THEN Blake3Air_generate_trace_rows(n, extra_capacity_bits)
    ELSE KeccakAir_generate_trace_rows(n, extra_capacity_bits)

\* impl ExampleHashAir for ProofObjective: generate_trace_rows
ProofObjective_generate_trace_rows(self, n, extra_capacity_bits) ==
    IF self.wrapper = "Blake3"
    THEN Blake3Air_generate_trace_rows(n, extra_capacity_bits)
    ELSE IF self.wrapper = "Poseidon2"
    THEN generate_vectorized_trace_rows(n, extra_capacity_bits)
    ELSE KeccakAir_generate_trace_rows(n, extra_capacity_bits)

\* impl ExampleHashAir for Blake3Air, KeccakAir, VectorizedPoseidon2Air and
\* Poseidon2Air: each calls its own generator
Direct_generate_trace_rows(self, n, extra_capacity_bits) ==
    IF self.air = "Blake3Air"
    THEN Blake3Air_generate_trace_rows(n, extra_capacity_bits)
    ELSE IF self.air = "KeccakAir"
    THEN KeccakAir_generate_trace_rows(n, extra_capacity_bits)
    ELSE IF self.air = "VectorizedPoseidon2Air"
    THEN generate_vectorized_trace_rows(n, extra_capacity_bits)
    ELSE Poseidon2Air_generate_trace_rows(n, extra_capacity_bits)

\* goal.generate_trace_rows(n, extra_capacity_bits)
generate_trace_rows(goal, n, extra_capacity_bits) ==
    IF goal.wrapper = "none"
    THEN Direct_generate_trace_rows(goal, n, extra_capacity_bits)
    ELSE ProofObjective_generate_trace_rows(goal, n, extra_capacity_bits)

\* the width and the constraints of a hash AIR, which live in the AIR's crate
AirWidth(air) == [width_of |-> air]
AirEval(air) == [constraints_of |-> air]

\* impl BaseAir for ProofObjective: width
ProofObjective_width(self) ==
    IF self.wrapper = "Blake3" THEN AirWidth("Blake3Air")
    ELSE IF self.wrapper = "Poseidon2" THEN AirWidth("VectorizedPoseidon2Air")
    ELSE AirWidth("KeccakAir")

\* the dispatcher with the Poseidon2 variant sent to the Keccak constraints
ProofObjective_eval_Misrouted(self) ==
    IF self.wrapper = "Blake3" THEN AirEval("Blake3Air")
    ELSE AirEval("KeccakAir")

\* impl Air for ProofObjective: eval
ProofObjective_eval(self) ==
    IF self.wrapper = "Blake3" THEN AirEval("Blake3Air")
    ELSE IF self.wrapper = "Poseidon2" THEN AirEval("VectorizedPoseidon2Air")
    ELSE AirEval("KeccakAir")

\* eval of the proof goal an entry point holds
eval_of_goal(goal) ==
    IF goal.wrapper = "none" THEN AirEval(goal.air) ELSE ProofObjective_eval(goal)

\* the constraints of the hash AIR hold on a trace exactly when the trace
\* came from the generator of the AIR whose constraints are imposed and its
\* height is a power of two
HashConstraintsHold(goal, t) ==
    /\ t.gen = eval_of_goal(goal).constraints_of
    /\ is_power_of_two(t.height)

\* prove on a hash trace
HashProveOutcomes(cfg, goal, t, public_values) ==
    LET sat == HashConstraintsHold(goal, t)
        prf == [kind |-> "proof", config |-> cfg, air |-> goal,
                public_values |-> public_values, commit |-> t, accepting |-> sat]
    IN  IF sat THEN {prf} ELSE {prf, [kind |-> "abort"]}

-----------------------------------------------------------------------------
(* examples/src/proofs.rs: the four proving entry points                   *)

KeccakSponge == [kind |-> "PaddingFreeSponge", perm |-> "KeccakF", width |-> 25,
                 rate |-> 17, out |-> 4]

get_keccak_mmcs ==
    [kind |-> "KeccakMerkleMmcs",
     hash |-> [kind |-> "SerializingHasher", inner |-> KeccakSponge],
     compress |-> [kind |-> "KeccakCompressionFunction", inner |-> KeccakSponge]]

\* the MMCS with the two permutations exchanged
get_poseidon2_mmcs_Swapped(p16, p24) ==
    [kind |-> "Poseidon2MerkleMmcs",
     hash |-> [kind |-> "Poseidon2Sponge", inner |-> p16],
     compress |-> [kind |-> "Poseidon2Compression", inner |-> p24]]

get_poseidon2_mmcs(p16, p24) ==
    [kind |-> "Poseidon2MerkleMmcs",
     hash |-> [kind |-> "Poseidon2Sponge", inner |-> p24],
     compress |-> [kind |-> "Poseidon2Compression", inner |-> p16]]

ExtensionMmcs(mmcs) == [kind |-> "ExtensionMmcs", inner |-> mmcs]

BenchmarkLogBlowup == 1

create_benchmark_fri_params(mmcs) == [log_blowup |-> BenchmarkLogBlowup, mmcs |-> mmcs]

NoParams == [kind |-> "none"]
NoPerm == [kind |-> "none", width |-> 0, draw |-> 0]
NoDft == [choice |-> "none", size |-> 0]

KeccakEntries == {"prove_monty31_keccak", "prove_m31_keccak"}
Poseidon2Entries == {"prove_monty31_poseidon2", "prove_m31_poseidon2"}
Monty31Entries == {"prove_monty31_keccak", "prove_monty31_poseidon2"}
M31Entries == {"prove_m31_keccak", "prove_m31_poseidon2"}
Entries == KeccakEntries \cup Poseidon2Entries

\* let val_mmcs = ...
EntryValMmcs(e, p16, p24) ==
    IF e \in KeccakEntries THEN get_keccak_mmcs ELSE get_poseidon2_mmcs(p16, p24)

\* let pcs = TwoAdicFriPcs::new(dft, val_mmcs, fri_params) or
\* CirclePcs::new(val_mmcs, fri_params)
EntryPcs(e, d, mmcs, params) ==
    IF e \in Monty31Entries
    THEN [kind |-> "TwoAdicFriPcs", dft |-> d, mmcs |-> mmcs, fri_params |-> params]
    ELSE [kind |-> "CirclePcs", dft |-> NoDft, mmcs |-> mmcs, fri_params |-> params]

\* let challenger = ...
EntryChallenger(e, p24) ==
    IF e \in KeccakEntries
    THEN [kind |-> "SerializingChallenger32", hasher |-> "Keccak256Hash", perm |-> NoPerm]
    ELSE [kind |-> "DuplexChallenger", hasher |-> "none", perm |-> p24]

\* let config = ...::new(pcs, challenger)
EntryConfig(e, pcs, challenger) ==
    [kind |-> IF e = "prove_monty31_keccak" THEN "KeccakStarkConfig"
              ELSE IF e = "prove_monty31_poseidon2" THEN "Poseidon2StarkConfig"
              ELSE IF e = "prove_m31_keccak" THEN "KeccakCircleStarkConfig"
              ELSE "Poseidon2CircleStarkConfig",
     pcs |-> pcs, challenger |-> challenger]

\* the empty public-value list `&vec![]`
NoPublicValues == <<>>

\* the proof goals and hash counts the entry points are called with directly
DirectGoals ==
    { Direct("Blake3Air"), Direct("KeccakAir"), Direct("VectorizedPoseidon2Air"),
      Direct("Poseidon2Air"),
      ProofObjective("Blake3", "Blake3Air"), ProofObjective("Keccak", "KeccakAir"),
      ProofObjective("Poseidon2", "VectorizedPoseidon2Air") }

HashCounts == {1, 3, 5, 8} \cup {2 ^ MaxLog}

Perm(w, k) == [kind |-> "Poseidon2", width |-> w, draw |-> k]

\* a test or caller invokes one of the four entry points
CallEntryPoint ==
    /\ pc = "idle"
    /\ \E e \in Entries, g \in DirectGoals, n \in HashCounts,
          d \in {"Recursive", "Parallel"} :
         /\ entry' = e
         /\ fn' = e
         /\ proof_goal' = g
         /\ num_hashes' = n
         /\ dft' = IF e \in M31Entries THEN NoDft
                   ELSE IF d = "Recursive" THEN [choice |-> d, size |-> 2 * n]
                   ELSE [choice |-> d, size |-> 0]
         /\ perm16' = IF e \in Poseidon2Entries THEN Perm(16, 0) ELSE NoPerm
         /\ perm24' = IF e \in Poseidon2Entries THEN Perm(24, 1) ELSE NoPerm
    /\ pc' = "h_params"
    /\ calls' = <<>>
    /\ UNCHANGED <<proof, result, fibLocals, extVars, loaderVars, args, trace_height, rng,
                   val_mmcs, fri_params, h_trace, config, reported, exit_status>>

\* val_mmcs, challenge_mmcs and fri_params
BuildParams ==
    /\ pc = "h_params"
    /\ LET m == EntryValMmcs(entry, perm16, perm24)
       IN  /\ val_mmcs' = m
           /\ fri_params' = create_benchmark_fri_params(ExtensionMmcs(m))
    /\ calls' = calls \o <<"val_mmcs", "create_benchmark_fri_params">>
    /\ pc' = "h_trace"
    /\ UNCHANGED <<fn, proof, result, fibLocals, extVars, loaderVars, args, trace_height, rng,
                   entry, proof_goal, dft, num_hashes, perm16, perm24, h_trace, config,
                   reported, exit_status>>

\* let trace = proof_goal.generate_trace_rows(num_hashes, fri_params.log_blowup)
GenerateHashTrace ==
    /\ pc = "h_trace"
    /\ h_trace' = generate_trace_rows(proof_goal, num_hashes, fri_params.log_blowup)
    /\ calls' = Append(calls, "generate_trace_rows")
    /\ pc' = "h_config"
    /\ UNCHANGED <<fn, proof, result, fibLocals, extVars, loaderVars, args, trace_height, rng,
                   entry, proof_goal, dft, num_hashes, perm16, perm24, val_mmcs,
                   fri_params, config, reported, exit_status>>

\* pcs, challenger and config
BuildConfig ==
    /\ pc = "h_config"
    /\ config' = EntryConfig(entry, EntryPcs(entry, dft, val_mmcs, fri_params),
                             EntryChallenger(entry, perm24))
    /\ calls' = calls \o <<"pcs", "challenger", "config">>
    /\ pc' = "h_prove"
    /\ UNCHANGED <<fn, proof, result, fibLocals, extVars, loaderVars, args, trace_height, rng,
                   entry, proof_goal, dft, num_hashes, perm16, perm24, val_mmcs,
                   fri_params, h_trace, reported, exit_status>>

\* let proof = prove(&config, &proof_goal, trace, &vec![])
HashProve ==
    /\ pc = "h_prove"
    /\ calls' = Append(calls, "prove")
    /\ \E out \in HashProveOutcomes(config, proof_goal, h_trace, NoPublicValues) :
         IF out.kind = "abort"
         THEN /\ result' = "panic"
              /\ exit_status' = IF fn = "main" THEN "panic" ELSE exit_status
              /\ pc' = "done"
              /\ UNCHANGED proof
         ELSE /\ proof' = out
              /\ pc' = "h_report"
              /\ UNCHANGED <<result, exit_status>>
    /\ UNCHANGED <<fn, fibLocals, extVars, loaderVars, args, trace_height, rng,
                   entry, proof_goal, dft, num_hashes, perm16, perm24, val_mmcs,
                   fri_params, h_trace, config, reported>>

\* the entry point going from prove to verify without reporting the proof
ReportProofSize_Skipped ==
    /\ pc = "h_report"
    /\ pc' = "h_verify"
    /\ UNCHANGED <<fn, proof, result, fibLocals, extVars, loaderVars, hashVars>>

\* report_proof_size(&proof)
ReportProofSize ==
    /\ pc = "h_report"
    /\ reported' = proof
    /\ calls' = Append(calls, "report_proof_size")
    /\ pc' = "h_verify"
    /\ UNCHANGED <<fn, proof, result, fibLocals, extVars, loaderVars, args, trace_height, rng,
                   entry, proof_goal, dft, num_hashes, perm16, perm24, val_mmcs,
                   fri_params, h_trace, config, exit_status>>

\* verify(&config, &proof_goal, &proof, &vec![]), whose value the entry
\* point returns
HashVerify ==
    /\ pc = "h_verify"
    /\ result' = verify(config, proof_goal, proof, NoPublicValues)
    /\ calls' = Append(calls, "verify")
    /\ pc' = IF fn = "main" THEN "main_report" ELSE "done"
    /\ UNCHANGED <<fn, proof, fibLocals, extVars, loaderVars, args, trace_height, rng,
                   entry, proof_goal, dft, num_hashes, perm16, perm24, val_mmcs,
                   fri_params, h_trace, config, reported, exit_status>>

-----------------------------------------------------------------------------
(* examples/examples/prove_prime_field_31.rs: the command-line front-end   *)

FieldOptions == {"KoalaBear", "BabyBear", "Mersenne31"}
ProofOptions == {"Blake3Permutations", "KeccakFPermutations", "Poseidon2Permutations"}
DftOptions == {"RecursiveDft", "Radix2DitParallel", "None"}
MerkleHashOptions == {"KeccakF", "Poseidon2"}

NoCliArgs ==
    [field |-> "unset", objective |-> "unset", log_trace_length |-> 0,
     discrete_fourier_transform |-> "unset", merkle_hash |-> "unset"]

\* the trace height taken as the number of hashes whatever the objective
NumHashes_Unscaled(objective, h) == h

\* let num_hashes = match args.objective { ... }
NumHashes(objective, h) ==
    IF objective = "Blake3Permutations" THEN h
    ELSE IF objective = "Poseidon2Permutations" THEN h * (2 ^ P2_LOG_VECTOR_LEN)
    ELSE h \div KECCAK_ROUNDS

\* let proof_goal = match args.objective { ... }, the same in the three
\* field branches but for the Poseidon2 parameters
ProofGoal(objective) ==
    IF objective = "Blake3Permutations" THEN ProofObjective("Blake3", "Blake3Air")
    ELSE IF objective = "KeccakFPermutations" THEN ProofObjective("Keccak", "KeccakAir")
    ELSE ProofObjective("Poseidon2", "VectorizedPoseidon2Air")

Chosen(d) == [panic |-> FALSE, dft |-> d]
DftPanic == [panic |-> TRUE, dft |-> NoDft]

\* the KoalaBear branch accepting a missing DFT option
KoalaBearDft_Lenient(option, h) ==
    IF option = "RecursiveDft" THEN Chosen([choice |-> "Recursive", size |-> h * 2])
    ELSE Chosen([choice |-> "Parallel", size |-> 0])

\* KoalaBear branch: let dft = match args.discrete_fourier_transform { ... }
KoalaBearDft(option, h) ==
    IF option = "RecursiveDft" THEN Chosen([choice |-> "Recursive", size |-> h * 2])
    ELSE IF option = "Radix2DitParallel" THEN Chosen([choice |-> "Parallel", size |-> 0])
    ELSE DftPanic

\* BabyBear branch: let dft = match args.discrete_fourier_transform { ... }
BabyBearDft(option, h) ==
    IF option = "RecursiveDft" THEN Chosen([choice |-> "Recursive", size |-> h * 2])
    ELSE IF option = "Radix2DitParallel" THEN Chosen([choice |-> "Parallel", size |-> 0])
    ELSE DftPanic

\* Mersenne31 branch: match args.discrete_fourier_transform { None => {}, _ => panic }
Mersenne31Dft(option, h) ==
    IF option = "None" THEN Chosen(NoDft) ELSE DftPanic

\* main up to the field match: the arguments, trace_height, num_hashes, rng
MainParseArgs ==
    /\ pc = "idle"
    /\ \E f \in FieldOptions, o \in ProofOptions, l \in 0..MaxLog, d \in DftOptions,
          m \in MerkleHashOptions :
         /\ args' = [field |-> f, objective |-> o, log_trace_length |-> l,
                     discrete_fourier_transform |-> d, merkle_hash |-> m]
         /\ trace_height' = 2 ^ l
         /\ num_hashes' = NumHashes(o, 2 ^ l)
    /\ rng' = 0
    /\ fn' = "main"
    /\ calls' = <<>>
    /\ pc' = "main_goal"
    /\ UNCHANGED <<proof, result, fibLocals, extVars, loaderVars, entry, proof_goal, dft, perm16,
                   perm24, val_mmcs, fri_params, h_trace, config, reported, exit_status>>

\* the proof goal; the Poseidon2 round constants are the first draw of rng
MainProofGoal ==
    /\ pc = "main_goal"
    /\ proof_goal' = ProofGoal(args.objective)
    /\ rng' = IF args.objective = "Poseidon2Permutations" THEN rng + 1 ELSE rng
    /\ pc' = "main_dft"
    /\ UNCHANGED <<fn, proof, result, fibLocals, extVars, loaderVars, args, trace_height, entry,
                   dft, num_hashes, perm16, perm24, val_mmcs, fri_params, h_trace,
                   config, reported, calls, exit_status>>

\* the DFT selection of the field's branch, which panics on a combination
\* the field does not support
MainSelectDft ==
    /\ pc = "main_dft"
    /\ LET option == args.discrete_fourier_transform
           sel == IF args.field = "KoalaBear" THEN KoalaBearDft(option, trace_height)
                  ELSE IF args.field = "BabyBear" THEN BabyBearDft(option, trace_height)
                  ELSE Mersenne31Dft(option, trace_height)
       IN  IF sel.panic
           THEN /\ exit_status' = "panic"
                /\ pc' = "done"
                /\ UNCHANGED dft
           ELSE /\ dft' = sel.dft
                /\ pc' = "main_call"
                /\ UNCHANGED exit_status
    /\ UNCHANGED <<fn, proof, result, fibLocals, extVars, loaderVars, args, trace_height, rng,
                   entry, proof_goal, num_hashes, perm16, perm24, val_mmcs, fri_params,
                   h_trace, config, reported, calls>>

\* match args.merkle_hash: the call of the proving entry point
MainCallEntry ==
    /\ pc = "main_call"
    /\ LET monty == args.field \in {"KoalaBear", "BabyBear"}
       IN  IF args.merkle_hash = "KeccakF"
           THEN /\ entry' = IF monty THEN "prove_monty31_keccak" ELSE "prove_m31_keccak"
                /\ UNCHANGED <<perm16, perm24, rng>>
           ELSE /\ entry' = IF monty THEN "prove_monty31_poseidon2"
                            ELSE "prove_m31_poseidon2"
                /\ perm16' = Perm(16, rng)
                /\ perm24' = Perm(24, rng + 1)
                /\ rng' = rng + 2
    /\ pc' = "h_params"
    /\ UNCHANGED <<fn, proof, result, fibLocals, extVars, loaderVars, args, trace_height,
                   proof_goal, dft, num_hashes, val_mmcs, fri_params, h_trace, config,
                   reported, calls, exit_status>>

\* report_result(result): panics on Err, prints the success line on Ok
MainReportResult ==
    /\ pc = "main_report"
    /\ exit_status' = IF result = "Ok" THEN "success" ELSE "panic"
    /\ calls' = Append(calls, "report_result")
    /\ pc' = "done"
    /\ UNCHANGED <<fn, proof, result, fibLocals, extVars, loaderVars, args, trace_height, rng,
                   entry, proof_goal, dft, num_hashes, perm16, perm24, val_mmcs,
                   fri_params, h_trace, config, reported>>

-----------------------------------------------------------------------------
(* fib2/src/lib.rs: the increment AIR and the trace loader.  A Goldilocks  *)
(* element is kept as the small integer congruent to it modulo the field   *)
(* order, so order - 1 is -1; a numeral of the file is wraps * order + off. *)

NUM_COLS == 73

Numeral(n) == [digits |-> TRUE, wraps |-> IF n < 0 THEN 1 ELSE 0, off |-> n]
NotANumber == [digits |-> FALSE, wraps |-> 0, off |-> 0]

\* s.trim().parse::<u64>() of a numeral
parse_u64(token) == [ok |-> token.digits, value |-> [wraps |-> token.wraps, off |-> token.off]]

\* `n as u64` of a row count
AsU64(n) == [wraps |-> 0, off |-> n]

\* Goldilocks::from_canonical_unchecked(x): the element x stands for
from_canonical_unchecked(x) == x.off

\* x - y in the field
GoldilocksSub(x, y) == x - y

GoldilocksOne == 1

\* the constraint asserted on every row, the last one included
IncrementAirEval_Always(current_row, next_row, is_transition) ==
    GoldilocksSub(next_row[1], current_row[1]) = GoldilocksOne

\* IncrementAir::eval on one (current, next) pair of rows
IncrementAirEval(current_row, next_row, is_transition) ==
    is_transition => GoldilocksSub(next_row[1], current_row[1]) = GoldilocksOne

\* one line of the file with col0 in column 0 and `fill` in the others
RowLine(col0, fill, ncols) == [c \in 1..ncols |-> IF c = 1 THEN Numeral(col0) ELSE Numeral(fill)]

Starts == {0, 1, 5, -2}
Junks == {"none", "blank", "short", "long", "garbage"}

NoFile == [exists |-> FALSE, start |-> 0, rows |-> 0, tail |-> "none", junk |-> "none",
           junk_at |-> 0]

\* the trace files tried: `rows` rows whose column 0 counts up from `start`,
\* the last one continuing or breaking the count, and one line of another
\* kind put before row junk_at
TraceFiles ==
    { [exists |-> TRUE, start |-> s, rows |-> n, tail |-> t, junk |-> j, junk_at |-> k] :
        s \in Starts, n \in 0..MaxRows, t \in {"continues", "breaks"},
        j \in Junks, k \in 1..2 }

JunkLine(j) ==
    IF j = "blank" THEN <<>>
    ELSE IF j = "short" THEN RowLine(7, 7, NUM_COLS - 1)
    ELSE IF j = "long" THEN RowLine(7, 7, NUM_COLS + 1)
    ELSE [RowLine(7, 7, NUM_COLS) EXCEPT ![2] = NotANumber]

\* content.lines() of a file
Lines(f) ==
    LET row(i) == RowLine(IF i = f.rows /\ f.tail = "breaks" THEN f.start + i + 40
                          ELSE f.start + i - 1,
                          100 + i, NUM_COLS)
        good == [i \in 1..f.rows |-> row(i)]
        at == IF f.junk_at > f.rows THEN f.rows + 1 ELSE f.junk_at
    IN  IF f.junk = "none" THEN good
        ELSE SubSeq(good, 1, at - 1) \o <<JunkLine(f.junk)>> \o SubSeq(good, at, f.rows)

\* the eprintln! of the loop body: a warning for a line that does not parse
\* or has another number of columns than NUM_COLS, no other effect
Eprintln(err, n, line) ==
    IF line = <<>> THEN err
    ELSE IF \E i \in 1..Len(line) : ~parse_u64(line[i]).ok
    THEN Append(err, [line |-> n + 1, warning |-> "Error parsing line"])
    ELSE IF Len(line) # NUM_COLS
    THEN Append(err, [line |-> n + 1, warning |-> "Warning: Row has columns"])
    ELSE err

\* the body of `for (line_num, line) in content.lines().enumerate()`
ParseLine(d, line) ==
    IF line = <<>> THEN d
    ELSE LET values == [i \in 1..Len(line) |-> parse_u64(line[i])]
         IN  IF \E i \in 1..Len(line) : ~values[i].ok THEN d
             ELSE IF Len(values) = NUM_COLS
             THEN d \o [i \in 1..Len(values) |-> from_canonical_unchecked(values[i].value)]
             ELSE d

RECURSIVE PadRows_FirstRow(_, _, _, _, _)
\* the loop with the other columns copied from the first row
PadRows_FirstRow(d, k, current_rows, target_rows, next_val) ==
    IF k >= target_rows THEN d
    ELSE LET first_row == SubSeq(d, 2, NUM_COLS)
             new_row == <<from_canonical_unchecked(next_val)>> \o first_row
         IN  PadRows_FirstRow(d \o new_row, k + 1, current_rows, target_rows,
                              AsU64(next_val.off + 1))

RECURSIVE PadRows(_, _, _, _, _)
\* the loop `for _ in current_rows..target_rows`
PadRows(d, k, current_rows, target_rows, next_val) ==
    IF k >= target_rows THEN d
    ELSE LET last_row == SubSeq(d, (current_rows - 1) * NUM_COLS + 2, current_rows * NUM_COLS)
             new_row == <<from_canonical_unchecked(next_val)>> \o last_row
         IN  PadRows(d \o new_row, k + 1, current_rows, target_rows,
                     AsU64(next_val.off + 1))

\* PREPROCESSING: drop the last row and pad to a power of two
TruncateAndPad(d) ==
    LET rows == Len(d) \div NUM_COLS
    IN  IF rows > 1
        THEN LET new_size == (rows - 1) * NUM_COLS
                 truncated == SubSeq(d, 1, new_size)
                 current_rows == rows - 1
                 target_rows == next_power_of_two(current_rows)
             IN  IF target_rows > current_rows
                 THEN PadRows(truncated, current_rows, current_rows, target_rows,
                              AsU64(current_rows))
                 ELSE truncated
        ELSE d

\* RowMajorMatrix::new(data, NUM_COLS)
RowMajorMatrix(values, w) == [values |-> values, width |-> w]
NoMatrix == [values |-> <<>>, width |-> 0]

MatrixHeight(m) == IF m.width = 0 THEN 0 ELSE Len(m.values) \div m.width
MatrixRow(m, r) == SubSeq(m.values, (r - 1) * m.width + 1, r * m.width)

\* parse_trace() is called with some trace.txt, or none, in the directory
CallParseTrace ==
    /\ pc = "idle"
    /\ file' \in TraceFiles \cup {NoFile}
    /\ fn' = "parse_trace"
    /\ pc' = "pt_read"
    /\ UNCHANGED <<proof, result, fibLocals, extVars, hashVars, line_num, data, num_rows, matrix,
                   stderr>>

\* let content = fs::read_to_string("trace.txt")?
ReadToString ==
    /\ pc = "pt_read"
    /\ IF file.exists
       THEN /\ pc' = "pt_lines"
            /\ UNCHANGED result
       ELSE /\ result' = "Err"
            /\ pc' = "done"
    /\ line_num' = 0
    /\ data' = <<>>
    /\ UNCHANGED <<fn, proof, fibLocals, extVars, hashVars, file, num_rows, matrix, stderr>>

\* one iteration of the loop over the lines
ParseTraceLine ==
    /\ pc = "pt_lines"
    /\ line_num < Len(Lines(file))
    /\ data' = ParseLine(data, Lines(file)[line_num + 1])
    /\ stderr' = Eprintln(stderr, line_num, Lines(file)[line_num + 1])
    /\ line_num' = line_num + 1
    /\ UNCHANGED <<pc, fn, proof, result, fibLocals, extVars, hashVars, file, num_rows, matrix>>

\* after the loop: num_rows, the truncation and padding, and Ok(matrix)
ParseTraceFinish ==
    /\ pc = "pt_lines"
    /\ line_num = Len(Lines(file))
    /\ num_rows' = Len(data) \div NUM_COLS
    /\ data' = TruncateAndPad(data)
    /\ matrix' = RowMajorMatrix(data', NUM_COLS)
    /\ IF fn = "generate_proof"
       THEN /\ pc' = "inc_prove"
            /\ UNCHANGED result
       ELSE /\ result' = "Ok"
            /\ pc' = "done"
    /\ UNCHANGED <<fn, proof, fibLocals, extVars, hashVars, file, line_num, stderr>>

-----------------------------------------------------------------------------
(* fib2/src/lib.rs generate_proof and fib2/src/plonky3.rs                  *)

\* BaseAir::width of IncrementAir, with the width of the other AIR
IncrementAirWidth_Fibonacci == NUM_FIBONACCI_COLS

\* BaseAir::width of IncrementAir
IncrementAirWidth == NUM_COLS

\* the trace has the shape prove takes for this AIR
IncrementShapeOk(m) ==
    /\ m.width = IncrementAirWidth
    /\ is_power_of_two(MatrixHeight(m))

\* the constraint of the AIR holds on every row of the matrix; the row after
\* the last one is the first
IncrementConstraintsHold(m) ==
    LET h == MatrixHeight(m)
    IN  \A i \in 1..h :
           IncrementAirEval(MatrixRow(m, i), MatrixRow(m, (i % h) + 1), i # h)

\* prove on an increment trace: a height that is not a power of two stops
\* the prover; a trace of another width than the AIR's, or one that breaks
\* the constraint, stops it or gives a proof verify rejects
IncrementProveOutcomes(cfg, m) ==
    LET sat == IncrementShapeOk(m) /\ IncrementConstraintsHold(m)
        prf == [kind |-> "proof", config |-> cfg, air |-> "IncrementAir",
                public_values |-> NoPublicValues, commit |-> m, accepting |-> sat]
    IN  IF ~is_power_of_two(MatrixHeight(m)) THEN {[kind |-> "abort"]}
        ELSE IF sat THEN {prf}
        ELSE {prf, [kind |-> "abort"]}

\* the Keccak configuration both functions build
IncrementKeccakConfig ==
    LET val_mmcs_ == [kind |-> "MerkleTreeMmcs",
                      hash |-> [kind |-> "SerializingHasher", inner |-> KeccakSponge],
                      compress |-> [kind |-> "CompressionFunctionFromHasher",
                                    inner |-> KeccakSponge]]
    IN  [kind |-> "StarkConfig",
         pcs |-> [kind |-> "TwoAdicFriPcs", dft |-> "Radix2DitParallel", mmcs |-> val_mmcs_,
                  fri_params |-> create_benchmark_fri_params(ExtensionMmcs(val_mmcs_))],
         challenger |-> [kind |-> "SerializingChallenger64", hasher |-> "Keccak256Hash"],
         proof_of_work_bits |-> "benchmark"]

\* SmallRng::seed_from_u64(42) in the Poseidon2 branch
P3_RNG_SEED == 42

\* the Poseidon2 configuration of p3_generate_proof
IncrementPoseidon2Config ==
    LET perm == [kind |-> "Poseidon2Goldilocks", width |-> 8, seed |-> P3_RNG_SEED]
        val_mmcs_ == [kind |-> "MerkleTreeMmcs",
                      hash |-> [kind |-> "PaddingFreeSponge", inner |-> perm],
                      compress |-> [kind |-> "TruncatedPermutation", inner |-> perm]]
    IN  [kind |-> "StarkConfig",
         pcs |-> [kind |-> "TwoAdicFriPcs", dft |-> "Radix2DitParallel", mmcs |-> val_mmcs_,
                  fri_params |-> create_benchmark_fri_params(ExtensionMmcs(val_mmcs_))],
         challenger |-> [kind |-> "DuplexChallenger", perm |-> perm],
         proof_of_work_bits |-> "one"]

\* the configuration p3_generate_proof builds: param.proof_of_work_bits = 1
P3Config(keccak) ==
    IF keccak THEN [IncrementKeccakConfig EXCEPT !.proof_of_work_bits = "one"]
    ELSE IncrementPoseidon2Config

\* a matrix of h rows and w columns whose column 0 counts up from s, with
\* row k (none for k = 0) moved off the count, and the other columns the
\* same on every row or not
IncrementTrace(h, w, s, k, vary) ==
    RowMajorMatrix([j \in 1..(h * w) |->
                       LET r == (j - 1) \div w
                           c == (j - 1) % w
                       IN  IF c = 0 THEN s + r + (IF k = r + 1 THEN 7 ELSE 0)
                           ELSE IF vary THEN 100 + r + c ELSE 9],
                   w)

\* the traces p3_generate_proof is given
P3Heights == { 2 ^ j : j \in 0..MaxLogHeight } \cup {3}
P3Widths == {NUM_COLS, 4}
P3Traces ==
    { IncrementTrace(h, w, s, k, v) :
        h \in P3Heights, w \in P3Widths, s \in {0, 5}, k \in 0..2, v \in BOOLEAN }
    \cup { IncrementTrace(h, NUM_COLS, 0, k, FALSE) : h \in P3Heights \ {1}, k \in 3..(2 ^ MaxLogHeight) }

\* generate_proof(): the configuration is built, then parse_trace() is called
CallGenerateProof ==
    /\ pc = "idle"
    /\ file' \in TraceFiles \cup {NoFile}
    /\ fn' = "generate_proof"
    /\ config' = IncrementKeccakConfig
    /\ pc' = "pt_read"
    /\ UNCHANGED <<proof, result, fibLocals, extVars, line_num, data, num_rows, matrix, stderr,
                   args, trace_height, rng, entry, proof_goal, dft, num_hashes, perm16,
                   perm24, val_mmcs, fri_params, h_trace, reported, calls, exit_status>>

\* p3_generate_proof(p3_trace, use_keccak) up to the configuration
CallP3GenerateProof ==
    /\ pc = "idle"
    /\ matrix' \in P3Traces
    /\ use_keccak' \in BOOLEAN
    /\ fn' = "p3_generate_proof"
    /\ config' = P3Config(use_keccak')
    /\ pc' = "inc_prove"
    /\ UNCHANGED <<proof, result, fibLocals, test_cases, case_index, panic_message,
                   returned_result, demoVars, configVars, converterVars, wasmVars, file, line_num, data, num_rows, stderr,
                   args, trace_height, rng, entry, proof_goal, dft, num_hashes, perm16,
                   perm24, val_mmcs, fri_params, h_trace, reported, calls, exit_status>>

\* let proof = prove(&config, &air, trace, &vec![])
IncrementProve ==
    /\ pc = "inc_prove"
    /\ \E out \in IncrementProveOutcomes(config, matrix) :
         IF out.kind = "abort"
         THEN /\ result' = "panic"
              /\ pc' = "done"
              /\ UNCHANGED proof
         ELSE /\ proof' = out
              /\ pc' = "inc_verify"
              /\ UNCHANGED result
    /\ UNCHANGED <<fn, fibLocals, extVars, hashVars, loaderVars>>

\* match verify(&config, &air, &proof, &vec![]): Ok(()) at the end, or
\* Err("Verification failed: ..")
IncrementVerify ==
    /\ pc = "inc_verify"
    /\ result' = verify(config, "IncrementAir", proof, NoPublicValues)
    /\ pc' = "done"
    /\ UNCHANGED <<fn, proof, fibLocals, extVars, hashVars, loaderVars>>

-----------------------------------------------------------------------------
(* fib2/examples/demo.rs                                                   *)

\* `for log_iter in 0..12`
DEMO_ITERATIONS == 12

\* what one whole call p3_generate_proof(m, keccak) can give its caller
P3GenerateProofResults(m, keccak) ==
    { IF out.kind = "abort" THEN "panic"
      ELSE verify(P3Config(keccak), "IncrementAir", out, NoPublicValues) :
        out \in IncrementProveOutcomes(P3Config(keccak), m) }

\* what trace_gen(iteration) can give: an error, or a trace of some width
\* whose column 0 does or does not count up
TraceGenOutcomes ==
    { [ok |-> FALSE, p3_trace |-> NoMatrix] }
    \cup { [ok |-> TRUE, p3_trace |-> IncrementTrace(8, w, 0, k, TRUE)] :
             w \in P3Widths, k \in {0, 3} }

\* the demo's main up to the loop
CallDemoMain ==
    /\ pc = "idle"
    /\ fn' = "demo_main"
    /\ log_iter' = 0
    /\ printed' = {}
    /\ pc' = "demo_gen"
    /\ UNCHANGED <<proof, result, fibLocals, hashVars, loaderVars, test_cases, case_index,
                   use_keccak, panic_message, returned_result, configVars, converterVars, wasmVars>>

\* the head of the loop and `trace_gen(iteration)?`; Ok(()) after the loop
DemoTraceGen ==
    /\ pc = "demo_gen"
    /\ IF log_iter = DEMO_ITERATIONS
       THEN /\ exit_status' = "Ok"
            /\ pc' = "done"
            /\ UNCHANGED matrix
       ELSE \E out \in TraceGenOutcomes :
               IF out.ok
               THEN /\ matrix' = out.p3_trace
                    /\ pc' = "demo_keccak"
                    /\ UNCHANGED exit_status
               ELSE /\ exit_status' = "Err"
                    /\ pc' = "done"
                    /\ UNCHANGED matrix
    /\ UNCHANGED <<fn, proof, result, fibLocals, extVars, file, line_num, data, num_rows, stderr,
                   args, trace_height, rng, entry, proof_goal, dft, num_hashes, perm16,
                   perm24, val_mmcs, fri_params, h_trace, config, reported, calls>>

\* match p3_generate_proof(p3_trace, keccak): both arms only print
DemoP3GenerateProof(at, keccak, then) ==
    /\ pc = at
    /\ use_keccak' = keccak
    /\ \E r \in P3GenerateProofResults(matrix, keccak) :
          IF r = "panic"
          THEN /\ exit_status' = "panic"
               /\ pc' = "done"
               /\ UNCHANGED printed
          ELSE /\ printed' = printed \cup
                     { IF r = "Ok" THEN "proof generation successful"
                       ELSE "proof generation failed" }
               /\ pc' = then
               /\ UNCHANGED exit_status
    /\ UNCHANGED <<fn, proof, result, fibLocals, loaderVars, test_cases, case_index,
                   panic_message, returned_result, log_iter, configVars, converterVars, wasmVars,
                   args, trace_height, rng, entry, proof_goal, dft, num_hashes, perm16,
                   perm24, val_mmcs, fri_params, h_trace, config, reported, calls>>

DemoP3Keccak == DemoP3GenerateProof("demo_keccak", TRUE, "demo_poseidon2")

DemoP3Poseidon2 == DemoP3GenerateProof("demo_poseidon2", FALSE, "demo_miden")

\* the two miden_generate_proof calls and the end of the loop body: their
\* results are printed too; the function in miden.rs is a todo!(), so a
\* call may also stop the program
DemoMiden ==
    /\ pc = "demo_miden"
    /\ \E r \in SUBSET {"proof generation successful", "proof generation failed", "panic"} :
          /\ r # {}
          /\ IF "panic" \in r
             THEN /\ exit_status' = "panic"
                  /\ pc' = "done"
                  /\ UNCHANGED <<printed, log_iter>>
             ELSE /\ printed' = printed \cup r
                  /\ log_iter' = log_iter + 1
                  /\ pc' = "demo_gen"
                  /\ UNCHANGED exit_status
    /\ UNCHANGED <<fn, proof, result, fibLocals, loaderVars, test_cases, case_index,
                   use_keccak, panic_message, returned_result, configVars, converterVars, wasmVars,
                   args, trace_height, rng, entry, proof_goal, dft, num_hashes, perm16,
                   perm24, val_mmcs, fri_params, h_trace, config, reported, calls>>

-----------------------------------------------------------------------------
(* trace-convertor/src/lib.rs: a Miden execution trace, kept column by     *)
(* column, is turned into a row-major matrix of Goldilocks elements.  A    *)
(* Felt is kept, like a Goldilocks element, as the small integer congruent *)
(* to it.                                                                  *)

\* largest trace length tried besides the sizes of the tests
MaxLength == 5

\* the sizes test_power_of_two_padding lists
TestSizes == {10, 64, 100, 127, 128, 200}

MidenWidths == {0, 1, 3}

\* a trace of h rows and w columns: column 0 is the clock up to the last
\* row, which Miden fills freely and where it is `tail`; column c > 0 holds
\* 10 c + r in row r
MidenTrace(h, w, tail) ==
    [length |-> h, width |-> w,
     columns |-> [c \in 1..w |-> [r \in 1..h |->
                    IF c = 1 THEN (IF r = h THEN tail ELSE r - 1) ELSE 10 * c + r]]]

NoMidenTrace == [length |-> 0, width |-> 0, columns |-> <<>>]

MidenTraces ==
    { MidenTrace(h, w, t) : h \in 0..MaxLength, w \in MidenWidths, t \in {-1, 40} }
    \cup { MidenTrace(h, w, h - 1) : h \in 0..MaxLength, w \in MidenWidths }
    \cup { MidenTrace(h, 1, h - 1) : h \in TestSizes }

\* Felt::from(i as u32), for a row index below 2^32
Felt_from_u32(i) == i

FeltZERO == 0

\* Felt::as_int: the canonical u64 of the element
as_int(x) == [wraps |-> IF x < 0 THEN 1 ELSE 0, off |-> x]

\* Goldilocks::from_u64: the element the u64 reduces to
Goldilocks_from_u64(x) == x.off

ConversionOk(m) == [ok |-> TRUE, err |-> "none", matrix |-> m]
ConversionErr(e) == [ok |-> FALSE, err |-> e, matrix |-> NoMatrix]
NoConversion == ConversionErr("none")

\* the cell convert takes for (row_idx, col_idx), both counted from 0
ConvertCell(t, row_idx, col_idx) ==
    IF row_idx < t.length - 1
    THEN t.columns[col_idx + 1][row_idx + 1]
    ELSE IF row_idx = t.length - 1
         THEN IF col_idx = 0
              THEN Felt_from_u32(row_idx)
              ELSE t.columns[col_idx + 1][row_idx + 1]
         ELSE FeltZERO

\* convert without the padding to a power of two
convert_Unpadded(t) ==
    IF t.length = 0 \/ t.width = 0
    THEN ConversionErr("EmptyTrace")
    ELSE ConversionOk(RowMajorMatrix(
             [k \in 1..(t.length * t.width) |->
                 Goldilocks_from_u64(as_int(
                     ConvertCell(t, (k - 1) \div t.width, (k - 1) % t.width)))],
             t.width))

\* TraceConverter::convert
convert(t) ==
    IF t.length = 0 \/ t.width = 0
    THEN ConversionErr("EmptyTrace")
    ELSE LET padded_height == next_power_of_two(t.length)
         IN  ConversionOk(RowMajorMatrix(
                 [k \in 1..(padded_height * t.width) |->
                     Goldilocks_from_u64(as_int(
                         ConvertCell(t, (k - 1) \div t.width, (k - 1) % t.width)))],
                 t.width))

\* convert_miden_trace
convert_miden_trace(t) == convert(t)

RECURSIVE log2_strict_usize(_)
\* log2_strict_usize of a power of two
log2_strict_usize(n) == IF n <= 1 THEN 0 ELSE 1 + log2_strict_usize(n \div 2)

NoStats == [original_height |-> 0, padded_height |-> 0, width |-> 0, padding_rows |-> 0,
            log_height |-> 0]

\* TraceConverter::trace_stats
trace_stats(t) ==
    LET padded_height == next_power_of_two(t.length)
    IN  [original_height |-> t.length, padded_height |-> padded_height,
         width |-> t.width, padding_rows |-> padded_height - t.length,
         log_height |-> log2_strict_usize(padded_height)]

\* a call of TraceConverter::convert, directly or through convert_miden_trace
CallConvert ==
    /\ pc = "idle"
    /\ \E t \in MidenTraces, f \in {"convert", "convert_miden_trace"} :
          /\ fn' = f
          /\ miden_trace' = t
          /\ converted' = IF f = "convert" THEN convert(t) ELSE convert_miden_trace(t)
    /\ pc' = "done"
    /\ UNCHANGED <<proof, result, fibLocals, hashVars, loaderVars, test_cases, case_index,
                   use_keccak, panic_message, returned_result, demoVars, configVars,
                   stats, wasmVars>>

\* a call of TraceConverter::trace_stats
CallTraceStats ==
    /\ pc = "idle"
    /\ \E t \in MidenTraces :
          /\ miden_trace' = t
          /\ stats' = trace_stats(t)
    /\ fn' = "trace_stats"
    /\ pc' = "done"
    /\ UNCHANGED <<proof, result, fibLocals, hashVars, loaderVars, test_cases, case_index,
                   use_keccak, panic_message, returned_result, demoVars, configVars,
                   converted, wasmVars>>

-----------------------------------------------------------------------------
(* fib-wasm/src/lib.rs: the entry points of the WASM build.  A u32 is the  *)
(* pair of its 16-bit limbs, low limb first.                               *)

\* largest n tried
MaxWasmN == 8

U32(k) == <<k % LimbBase, k \div LimbBase>>

\* u32::wrapping_add
wrapping_add(x, y) ==
    <<(x[1] + y[1]) % LimbBase,
      (x[2] + y[2] + ((x[1] + y[1]) \div LimbBase)) % LimbBase>>

RECURSIVE WasmFibLoop(_, _, _, _)
\* the loop `for _ in 2..=n` from its k-th pass on
WasmFibLoop(a, b, k, n) ==
    IF k > n THEN b ELSE WasmFibLoop(b, wrapping_add(a, b), k + 1, n)

\* the loop started from the pair (1, 1), without the early return
fibonacci_FromOne(n) == WasmFibLoop(U32(1), U32(1), 2, n)

\* fibonacci
fibonacci(n) == IF n <= 1 THEN U32(n) ELSE WasmFibLoop(U32(0), U32(1), 2, n)

WasmOk(text) == [ok |-> TRUE, text |-> text, actual |-> U32(0)]
WasmErr(text) == [ok |-> FALSE, text |-> text, actual |-> U32(0)]
\* the error "F(n) = actual, not expected_result"
WasmMismatch(actual) == [ok |-> FALSE, text |-> "F(n) = actual, not expected", actual |-> actual]
NoWasmResult == WasmErr("none")

\* prove_fibonacci_minimal
prove_fibonacci_minimal(n, e) ==
    IF n = 0 \/ n > 4
    THEN WasmErr("n must be between 1 and 4 for minimal WASM proof")
    ELSE IF fibonacci(n) # e
         THEN WasmMismatch(fibonacci(n))
         ELSE WasmOk("Fibonacci validation successful (ZK proof simulation)")

\* prove_fibonacci
prove_fibonacci(n, e) ==
    IF n <= 4
    THEN prove_fibonacci_minimal(n, e)
    ELSE IF n = 0 \/ n > 6
         THEN WasmErr("n must be between 1 and 6 for WASM")
         ELSE IF fibonacci(n) # e
              THEN WasmMismatch(fibonacci(n))
              ELSE WasmOk("ZK proof validation successful (full proof disabled)")

\* the values of n tried: the small ones, and two where the u32 sum wraps
WasmNs == (0..MaxWasmN) \cup {47, 48}

\* the expected results tried: small ones, and one that agrees with 8 in its
\* low limb only
WasmExpected == { U32(k) : k \in 0..9 } \cup { <<8, 1>> }

\* a call of prove_fibonacci or of prove_fibonacci_minimal from JavaScript
CallWasmProveFibonacci ==
    /\ pc = "idle"
    /\ \E n \in WasmNs, e \in WasmExpected,
          f \in {"fib_wasm::prove_fibonacci", "fib_wasm::prove_fibonacci_minimal"} :
          /\ fn' = f
          /\ wasm_n' = n
          /\ wasm_expected' = e
          /\ wasm_result' = IF f = "fib_wasm::prove_fibonacci"
                            THEN prove_fibonacci(n, e)
                            ELSE prove_fibonacci_minimal(n, e)
    /\ pc' = "done"
    /\ UNCHANGED <<proof, result, fibLocals, hashVars, loaderVars, test_cases, case_index,
                   use_keccak, panic_message, returned_result, demoVars, configVars,
                   converterVars>>

-----------------------------------------------------------------------------
(* The whole program: nothing has been called yet.                         *)

Init ==
    /\ pc = "idle"
    /\ fn = "none"
    /\ start_a = U64(0)
    /\ start_b = U64(0)
    /\ num_steps = 0
    /\ expected_result = U64(0)
    /\ trace = <<>>
    /\ proof = NoProof
    /\ v_args = NoArgs
    /\ result = "none"
    /\ args = NoCliArgs
    /\ trace_height = 0
    /\ rng = 0
    /\ entry = "none"
    /\ proof_goal = NoGoal
    /\ dft = NoDft
    /\ num_hashes = 0
    /\ perm16 = NoPerm
    /\ perm24 = NoPerm
    /\ val_mmcs = NoParams
    /\ fri_params = NoParams
    /\ h_trace = NoHashTrace
    /\ config = NoParams
    /\ reported = NoProof
    /\ calls = <<>>
    /\ exit_status = "none"
    /\ file = NoFile
    /\ line_num = 0
    /\ data = <<>>
    /\ num_rows = 0
    /\ matrix = NoMatrix
    /\ test_cases = <<>>
    /\ case_index = 0
    /\ use_keccak = FALSE
    /\ panic_message = ""
    /\ returned_result = U64(0)
    /\ stderr = <<>>
    /\ log_iter = 0
    /\ printed = {}
    /\ config_opt = None
    /\ v_config_opt = None
    /\ proof2 = NoProof
    /\ miden_trace = NoMidenTrace
    /\ converted = NoConversion
    /\ stats = NoStats
    /\ wasm_n = 0
    /\ wasm_expected = U32(0)
    /\ wasm_result = NoWasmResult

Next ==
    \/ CallProveAndVerifyFibonacci
    \/ CallProveFibonacci
    \/ CallProveFibonacciKnowledge
    \/ CallProveFibonacciKnowledgeSome
    \/ ProveFibonacciKnowledgeAgain
    \/ GenerateTrace
    \/ GenerateFibonacciTraceWithResult
    \/ ProveFibonacciKnowledge
    \/ ProveFibonacci
    \/ VerifyInProveAndVerify
    \/ VerifyInProveFibonacci
    \/ VerifyFibonacciProof
    \/ CallBatchProveFibonacci
    \/ BatchNextCase
    \/ VerifyInBatch
    \/ CallEntryPoint
    \/ BuildParams
    \/ GenerateHashTrace
    \/ BuildConfig
    \/ HashProve
    \/ ReportProofSize
    \/ HashVerify
    \/ MainParseArgs
    \/ MainProofGoal
    \/ MainSelectDft
    \/ MainCallEntry
    \/ MainReportResult
    \/ CallParseTrace
    \/ ReadToString
    \/ ParseTraceLine
    \/ ParseTraceFinish
    \/ CallGenerateProof
    \/ CallP3GenerateProof
    \/ IncrementProve
    \/ IncrementVerify
    \/ CallDemoMain
    \/ DemoTraceGen
    \/ DemoP3Keccak
    \/ DemoP3Poseidon2
    \/ DemoMiden
    \/ CallConvert
    \/ CallTraceStats
    \/ CallWasmProveFibonacci

vars == <<pc, fn, proof, result, fibLocals, hashVars, loaderVars, extVars>>

Spec == Init /\ [][Next]_vars

-----------------------------------------------------------------------------
(* The claims about the Fibonacci pipeline.                                *)

TraceGenerated == pc \in {"fib_prove", "fib_verify", "done"} /\ trace # <<>>

LastRow == trace[height(trace)]

\* the integer a u64 stands for, when it is below 2^31
SmallValue(x) == x[2] * LimbBase + x[1]
IsSmall(x) == x[3] = 0 /\ x[4] = 0 /\ x[2] < 2 ^ 15

\* z = x + y modulo the BabyBear prime, for canonical x, y and z
SumInField(z, x, y) == z - x = y \/ z - x = y - BabyBearP

CalledWith(f, a, b, n, e) ==
    /\ fn = f
    /\ start_a = a
    /\ start_b = b
    /\ num_steps = n
    /\ expected_result = e

\* C2: generate_fibonacci_trace(a, b, n) returns exactly n rows of 2
\* columns; row 0 is (a, b) as field elements and every later row is
\* (previous right, previous left + previous right) in the field; from
\* (1, 1) with n = 8 the rows are (1,1),(1,2),(2,3),(3,5),(5,8),(8,13),
\* (13,21),(21,34).
C2_TraceIsFibonacci ==
    TraceGenerated =>
        /\ height(trace) = num_steps
        /\ width(trace) = 2
        /\ width(trace) = FibonacciAirWidth
        /\ \A i \in 1..height(trace) :
              /\ DOMAIN trace[i] = {"left", "right"}
              /\ trace[i].left \in 0..(BabyBearP - 1)
              /\ trace[i].right \in 0..(BabyBearP - 1)
        /\ trace[1] = FibonacciRow(from_u64(start_a), from_u64(start_b))
        /\ (IsSmall(start_a) /\ SmallValue(start_a) < BabyBearP)
              => trace[1].left = SmallValue(start_a)
        /\ (IsSmall(start_b) /\ SmallValue(start_b) < BabyBearP)
              => trace[1].right = SmallValue(start_b)
        /\ \A i \in 2..height(trace) :
              /\ trace[i].left = trace[i - 1].right
              /\ SumInField(trace[i].right, trace[i - 1].left, trace[i - 1].right)
        /\ (start_a = U64(1) /\ start_b = U64(1) /\ num_steps = 8)
              => trace = << FibonacciRow(1, 1), FibonacciRow(1, 2), FibonacciRow(2, 3),
                            FibonacciRow(3, 5), FibonacciRow(5, 8), FibonacciRow(8, 13),
                            FibonacciRow(13, 21), FibonacciRow(21, 34) >>

\* a generated trace of 8 rows from (1, 1), and one whose values wrapped
C2_Witness ==
    /\ pc = "fib_prove"
    /\ start_a = U64(BabyBearP - 1)
    /\ num_steps = 8
    /\ LastRow = FibonacciRow(5, 8)

\* C3: for every start pair and every power-of-two num_steps the generated
\* trace satisfies every FibonacciAir constraint for the public values
\* (row 0 left, row 0 right, last row right), and so
\* prove_and_verify_fibonacci(a, b, n, last right) returns Ok.
C3_Claim ==
    /\ TraceGenerated =>
          FibonacciConstraintsHold(trace, <<trace[1].left, trace[1].right, LastRow.right>>)
    /\ ( /\ pc = "done"
         /\ fn = "prove_and_verify_fibonacci"
         /\ is_power_of_two(num_steps)
         /\ expected_result = LastRight(start_a, start_b, num_steps) )
          => result = "Ok"

\* C4: when the expected result given to prove_and_verify_fibonacci or
\* prove_fibonacci differs, as a field element, from the right cell of the
\* last row of the generated trace, the call does not return Ok.
C4_Claim ==
    ( /\ pc = "done"
      /\ fn \in {"prove_and_verify_fibonacci", "prove_fibonacci"}
      /\ trace # <<>>
      /\ from_u64(expected_result) # LastRow.right )
       => result # "Ok"

\* C5 as stated: a proof made by prove_fibonacci_knowledge for expected
\* result r1 is rejected by verify_fibonacci_proof called with a different
\* expected result r2.
C5_Claim ==
    ( /\ pc = "done"
      /\ fn = "prove_fibonacci_knowledge"
      /\ proof.kind = "proof"
      /\ v_args.expected_result # expected_result )
       => result = "Err"

SameAsField32(x, y) == BabyBearNew(AsU32(x)) = BabyBearNew(AsU32(y))

\* C5 (amended): verify_fibonacci_proof rejects a proof of
\* prove_fibonacci_knowledge whenever one of its three arguments gives a
\* public value, BabyBear::new(x as u32), other than the one the prover
\* used; it accepts only under the identical public-value list.
C5_ProofBoundToPublicValues ==
    ( /\ pc = "done"
      /\ fn = "prove_fibonacci_knowledge"
      /\ proof.kind = "proof" )
       => /\ result \in {"Ok", "Err"}
          /\ result = "Ok" =>
                /\ SameAsField32(v_args.start_a, start_a)
                /\ SameAsField32(v_args.start_b, start_b)
                /\ SameAsField32(v_args.expected_result, expected_result)

\* an accepting proof for 34 on the 8-row trace, verified against 99
C5_Witness ==
    /\ pc = "done"
    /\ CalledWith("prove_fibonacci_knowledge", U64(1), U64(1), 8, U64(34))
    /\ proof.kind = "proof"
    /\ proof.accepting
    /\ v_args = Args(U64(1), U64(1), U64(99))
    /\ result = "Err"

\* C8 as stated: height 2 with public values (1, 1, 1) proves and verifies.
C8_Claim ==
    ( /\ pc = "done"
      /\ CalledWith("prove_and_verify_fibonacci", U64(1), U64(1), 2, U64(1)) )
       => result = "Ok"

\* C8 (amended): a Fibonacci trace of height 2 from (1, 1) is proven and
\* verified with public values (1, 1, 2): its rows are (1,1),(1,2).
C8_MinimumTrace ==
    ( /\ pc = "done"
      /\ CalledWith("prove_and_verify_fibonacci", U64(1), U64(1), 2, U64(2)) )
       => /\ result = "Ok"
          /\ trace = << FibonacciRow(1, 1), FibonacciRow(1, 2) >>

C8_Witness ==
    /\ pc = "done"
    /\ CalledWith("prove_and_verify_fibonacci", U64(1), U64(1), 2, U64(2))
    /\ height(trace) = 2
    /\ result = "Ok"

\* C9: prove_fibonacci(n, expected_result) returns Ok when expected_result
\* is the n-th Fibonacci number F(n) (F(1) = F(2) = 1); prove_fibonacci(8, 21)
\* returns Ok.
C9_Claim ==
    ( /\ pc = "done"
      /\ fn = "prove_fibonacci"
      /\ is_power_of_two(num_steps)
      /\ expected_result = U64(calculate_fibonacci(num_steps)) )
       => result = "Ok"

\* C10: prove_and_verify_fibonacci(2, 3, 4, 21) returns Ok.
C10_Claim ==
    ( /\ pc = "done"
      /\ CalledWith("prove_and_verify_fibonacci", U64(2), U64(3), 4, U64(21)) )
       => result = "Ok"

-----------------------------------------------------------------------------
(* The claims about the hash-AIR entry points and the front-end.           *)

Called(step) == \E i \in 1..Len(calls) : calls[i] = step

TraceMade == entry \in Entries /\ h_trace # NoHashTrace

\* C1: in each of prove_monty31_keccak, prove_monty31_poseidon2,
\* prove_m31_keccak and prove_m31_poseidon2, for every hash AIR (Blake3,
\* Keccak-f, Poseidon2, vectorized Poseidon2, alone or inside ProofObjective)
\* and every num_hashes, the trace proven is the one the AIR's own generator
\* makes for num_hashes, prove yields a proof of it, and the entry point
\* returns Ok(()).
C1_EntryPointsComplete ==
    /\ TraceMade =>
          /\ h_trace.gen = proof_goal.air
          /\ h_trace.num_hashes = num_hashes
          /\ HashConstraintsHold(proof_goal, h_trace)
    /\ (entry \in Entries /\ pc \in {"h_report", "h_verify", "main_report", "done"}) =>
          /\ proof.kind = "proof"
          /\ proof.commit = h_trace
          /\ proof.accepting
    /\ (entry \in Entries /\ pc \in {"main_report", "done"}) => result = "Ok"

\* Keccak hashes proven through prove_monty31_poseidon2, called directly
C1_Witness ==
    /\ pc = "done"
    /\ fn = "prove_monty31_poseidon2"
    /\ proof_goal = Direct("KeccakAir")
    /\ num_hashes = 5
    /\ h_trace.height = 128
    /\ result = "Ok"

BadCombination(a) ==
    \/ a.field \in {"BabyBear", "KoalaBear"} /\ a.discrete_fourier_transform = "None"
    \/ a.field = "Mersenne31" /\ a.discrete_fourier_transform # "None"

\* C7: the front-end run with BabyBear or KoalaBear and DFT option None, or
\* with Mersenne31 and a DFT option other than None, ends in a panic with
\* no trace generated and prove never called; with every other field/DFT
\* combination it goes on to call prove.
C7_FieldDftGating ==
    (fn = "main") =>
       /\ BadCombination(args) =>
             /\ pc \in {"main_goal", "main_dft", "done"}
             /\ entry = "none"
             /\ calls = <<>>
             /\ h_trace = NoHashTrace
             /\ proof = NoProof
             /\ pc = "done" => exit_status = "panic"
       /\ ~BadCombination(args) =>
             /\ pc \in {"main_report", "done"} =>
                   /\ Called("generate_trace_rows")
                   /\ Called("prove")
                   /\ entry \in Entries
             /\ pc = "done" => exit_status = "success"

\* a Mersenne31 run given a DFT option has panicked
C7_Witness ==
    /\ fn = "main"
    /\ pc = "done"
    /\ args.field = "Mersenne31"
    /\ args.discrete_fourier_transform = "Radix2DitParallel"
    /\ exit_status = "panic"
    /\ calls = <<>>

-----------------------------------------------------------------------------
(* The claims about the trace loader.                                      *)

Loaded == pc = "done" /\ fn = "parse_trace" /\ result = "Ok"

\* the rows parse_trace kept of those it parsed
KeptRows == IF num_rows > 1 THEN num_rows - 1 ELSE num_rows

Increments(m, r) == IncrementAirEval(MatrixRow(m, r), MatrixRow(m, r + 1), TRUE)

\* C6: in the matrix parse_trace returns every consecutive row pair, the
\* last kept row to the first padded row and padded to padded included,
\* satisfies col0[i+1] = col0[i] + 1, whenever the kept rows do, whatever
\* value column 0 starts from.
C6_Claim ==
    ( /\ Loaded
      /\ \A r \in 1..(KeptRows - 1) : Increments(matrix, r) )
       => \A r \in 1..(MatrixHeight(matrix) - 1) : Increments(matrix, r)

-----------------------------------------------------------------------------
(* The claims about batch proving and the trace generator.                 *)

BatchDone == pc = "done" /\ fn = "batch_prove_fibonacci"

\* C11: batch_prove_fibonacci proves and verifies its cases in list order
\* and returns Ok for the batch [(1,1,4,8), (1,1,8,34), (2,3,2,8)] of the
\* test and for the batch [(1,1,2,2), (1,1,4,8), (1,1,8,34), (3,5,2,13)] of
\* the demo.
C11_Claim ==
    (BatchDone /\ test_cases \in {TestBatch, DemoBatch}) => result = "Ok"

\* C12: with num_steps = 1 the trace is the single row (a, b), the first-row
\* and last-row constraints fall on that row and no transition constraint
\* applies, so prove_and_verify_fibonacci(a, b, 1, b) returns Ok, as
\* (5, 8, 1, 8) does.
C12_Claim ==
    ( /\ pc = "done"
      /\ fn = "prove_and_verify_fibonacci"
      /\ num_steps = 1
      /\ expected_result = start_b )
       => /\ trace = << FibonacciRow(from_u64(start_a), from_u64(start_b)) >>
          /\ result = "Ok"

\* the heights a trace may have
PowersOfTwo == { 2 ^ k : k \in 0..MaxSteps }

\* the generator has been called with the current num_steps
GeneratorCalled ==
    /\ pc \in {"fib_prove", "fib_verify", "done"}
    /\ \/ fn \in {"prove_and_verify_fibonacci", "prove_fibonacci",
                  "prove_fibonacci_knowledge", "generate_fibonacci_trace_with_result"}
       \/ fn = "batch_prove_fibonacci" /\ case_index > 0

\* C13: generate_fibonacci_trace panics with "Number of steps must be a
\* power of 2" for every num_steps that is not a power of two, 0 included,
\* before any row is built, and every trace it returns has a power-of-two
\* height.
C13_RejectsNonPowerOfTwo ==
    /\ (GeneratorCalled /\ num_steps \notin PowersOfTwo)
          => /\ pc = "done"
             /\ result = "panic"
             /\ panic_message = "Number of steps must be a power of 2"
             /\ trace = <<>>
    /\ (GeneratorCalled /\ trace # <<>>)
          => /\ height(trace) \in PowersOfTwo
             /\ height(trace) = num_steps

\* num_steps = 0 is refused with the power-of-two message
C13_Witness ==
    /\ GeneratorCalled
    /\ num_steps = 0
    /\ result = "panic"
    /\ panic_message = "Number of steps must be a power of 2"

\* C14: in the trace started at (1, 1), row i (counted from 0) is
\* (F(i+1), F(i+2)) with F = calculate_fibonacci, so n rows end with
\* right = F(n+1) (34 = F(9) for 8 rows), and
\* generate_fibonacci_trace_with_result returns that last right value.
C14_IndexConvention ==
    /\ (GeneratorCalled /\ trace # <<>> /\ start_a = U64(1) /\ start_b = U64(1))
          => /\ \A i \in 0..(height(trace) - 1) :
                   trace[i + 1] = FibonacciRow(calculate_fibonacci(i + 1),
                                               calculate_fibonacci(i + 2))
             /\ LastRow.right = calculate_fibonacci(num_steps + 1)
    /\ (fn = "generate_fibonacci_trace_with_result" /\ result = "returned")
          => /\ returned_result = as_canonical_u64(LastRow.right)
             /\ (start_a = U64(1) /\ start_b = U64(1))
                   => returned_result = U64(calculate_fibonacci(num_steps + 1))

\* the 8-row trace from (1, 1) with the result 34
C14_Witness ==
    /\ fn = "generate_fibonacci_trace_with_result"
    /\ result = "returned"
    /\ start_a = U64(1) /\ start_b = U64(1)
    /\ num_steps = 8
    /\ returned_result = U64(34)
    /\ trace[8] = FibonacciRow(21, 34)

-----------------------------------------------------------------------------
(* The claims about the increment pipeline.                                *)

\* C15: for every trace file parse_trace returns a matrix of width 73 whose
\* height is a power of two, the least one not below the number of kept
\* rows.
C15_Claim ==
    Loaded => /\ matrix.width = NUM_COLS
              /\ is_power_of_two(MatrixHeight(matrix))
              /\ MatrixHeight(matrix) = next_power_of_two(KeptRows)

RECURSIVE ParsedData(_, _)
\* the field elements of the first k lines that the loop over the lines keeps
ParsedData(lines, k) ==
    IF k = 0 THEN <<>> ELSE ParseLine(ParsedData(lines, k - 1), lines[k])

\* the last of the parsed rows does not continue the count of the one before
LastRowBreaks(parsed) ==
    LET n == Len(parsed) \div NUM_COLS
        m == RowMajorMatrix(parsed, NUM_COLS)
    IN  n >= 2 /\ ~Increments(m, n - 1)

\* C16: parse_trace keeps every parsed row, except that a last row breaking
\* the column-0 increment is dropped; when the last row continues the
\* increment no row is lost.
C16_Claim ==
    Loaded =>
        LET parsed == ParsedData(Lines(file), Len(Lines(file)))
            n == Len(parsed) \div NUM_COLS
            kept == IF LastRowBreaks(parsed) THEN n - 1 ELSE n
        IN  /\ MatrixHeight(matrix) >= kept
            /\ \A r \in 1..kept :
                  MatrixRow(matrix, r) = MatrixRow(RowMajorMatrix(parsed, NUM_COLS), r)

\* prove and verify have run on `matrix`, or prove has stopped
IncrementDone ==
    /\ pc = "done"
    /\ fn \in {"generate_proof", "p3_generate_proof"}
    /\ matrix # NoMatrix

Col0(m, r) == m.values[(r - 1) * m.width + 1]

\* column 0 goes up by one from each row to the next one
Col0Increments(m) ==
    \A r \in 1..(MatrixHeight(m) - 1) : Col0(m, r + 1) = Col0(m, r) + 1

\* C17: a trace of the AIR's width and a power-of-two height is proven and
\* verified exactly when col0[i+1] = col0[i] + 1 for every consecutive row
\* pair i < height - 1: column 0 = 0..63 is accepted, a change of column 0
\* in one row of a satisfying trace is refused, and the start value, the
\* other columns and the pair (last row, first row) do not matter.
C17_IncrementAir ==
    ( /\ IncrementDone
      /\ matrix.width = NUM_COLS
      /\ MatrixHeight(matrix) \in { 2 ^ j : j \in 0..(MaxLogHeight + 1) } )
       => (result = "Ok" <=> Col0Increments(matrix))

\* the 64-row trace with column 0 = 0..63 is accepted
C17_Witness ==
    /\ IncrementDone
    /\ fn = "p3_generate_proof"
    /\ matrix.width = NUM_COLS
    /\ MatrixHeight(matrix) = 64
    /\ \A r \in 1..64 : Col0(matrix, r) = r - 1
    /\ result = "Ok"

\* C18: the Increment AIR takes an increment trace of any width W >= 1, its
\* declared width being that of the trace given, so a trace of 64 rows and 4
\* columns with column 0 = 0..63 is proven and verified.
C18_Claim ==
    ( /\ IncrementDone
      /\ fn = "p3_generate_proof"
      /\ matrix.width >= 1
      /\ is_power_of_two(MatrixHeight(matrix))
      /\ Col0Increments(matrix) )
       => result = "Ok"

\* C18 as the code has it: the declared width is NUM_COLS whatever the
\* trace, and of the increment traces only those of width NUM_COLS are
\* proven and verified.
C18_FixedWidth ==
    /\ IncrementAirWidth = NUM_COLS
    /\ ( /\ IncrementDone
         /\ fn = "p3_generate_proof"
         /\ is_power_of_two(MatrixHeight(matrix))
         /\ Col0Increments(matrix) )
          => (result = "Ok" <=> matrix.width = NUM_COLS)

\* the trace of 64 rows and 4 columns with column 0 = 0..63 is refused
C18_Witness ==
    /\ IncrementDone
    /\ fn = "p3_generate_proof"
    /\ matrix.width = 4
    /\ MatrixHeight(matrix) = 64
    /\ \A r \in 1..64 : Col0(matrix, r) = r - 1
    /\ result # "Ok"

\* an error has happened in a finished run of the increment pipeline: the
\* file could not be read, a line was skipped with a warning, prove or
\* verify refused the trace, or the demo printed a failure
ErrorHappened ==
    \/ /\ fn = "generate_proof"
       /\ \/ ~file.exists
          \/ stderr # <<>>
          \/ (proof # NoProof /\ ~proof.accepting)
    \/ /\ fn = "demo_main"
       /\ "proof generation failed" \in printed

\* what the top-level entry point hands back
TopLevelStatus == IF fn = "demo_main" THEN exit_status ELSE result

\* C19: in the increment pipeline no error is silently recovered: a file
\* read failure, a line that fails to parse or has the wrong number of
\* columns, and a verification failure each end the top-level entry point
\* (generate_proof, the demo's main) with an error, never with success.
C19_Claim ==
    (pc = "done" /\ fn \in {"generate_proof", "demo_main"} /\ ErrorHappened)
       => TopLevelStatus \in {"Err", "panic"}

-----------------------------------------------------------------------------
(* The claim about determinism.                                            *)

\* the (log_final_poly_len, seed) an option stands for
ConfigArgs(opt) ==
    IF opt.some THEN opt.args ELSE <<DEFAULT_LOG_FINAL_POLY_LEN, DEFAULT_SEED>>

\* C20: runs with identical inputs give identical proofs and the same verify
\* outcome: create_custom_fibonacci_config(l, seed) called twice with the
\* same arguments, and create_fibonacci_config() called twice, give
\* interchangeable configurations, so a proof made under one instance
\* verifies under an instance built separately, as with None on both sides.
C20_Determinism ==
    /\ \A a, b \in OsEntropy :
          /\ create_fibonacci_config(a) = create_fibonacci_config(b)
          /\ \A c \in CustomConfigArgs :
                create_custom_fibonacci_config(c[1], c[2], a)
                   = create_custom_fibonacci_config(c[1], c[2], b)
    /\ (fn = "prove_fibonacci_knowledge" /\ proof2 # NoProof) => proof2 = proof
    /\ ( /\ pc = "done"
         /\ fn \in {"prove_fibonacci_knowledge", "prove_and_verify_fibonacci"}
         /\ proof # NoProof
         /\ ConfigArgs(v_config_opt) = ConfigArgs(config_opt) )
          => result = verify(proof.config, "FibonacciAir", proof,
                             VerifierPublicValues(v_args.start_a, v_args.start_b,
                                                  v_args.expected_result))

\* a proof made under a custom configuration, made again identically, and
\* accepted under an instance built separately from the same arguments
C20_Witness ==
    /\ pc = "done"
    /\ fn = "prove_fibonacci_knowledge"
    /\ config_opt.some /\ v_config_opt.some
    /\ config_opt.args = <<1, 123>>
    /\ v_config_opt.args = config_opt.args
    /\ proof2 = proof
    /\ result = "Ok"

-----------------------------------------------------------------------------
(* The claims about p3_generate_proof and the trace converter.             *)

\* the trace of the shape of m whose column 0 counts up from 0
SyntheticTrace(m) == IncrementTrace(MatrixHeight(m), m.width, 0, 0, FALSE)

\* C21: p3_generate_proof ignores the cells of the trace it is given and
\* proves a synthetic trace that satisfies the increment constraint, so its
\* result is the one the synthetic trace of the same shape gives.
C21_Claim ==
    (IncrementDone /\ fn = "p3_generate_proof")
       => result \in P3GenerateProofResults(SyntheticTrace(matrix), use_keccak)

\* convert, directly or through convert_miden_trace, has returned
ConvertDone == pc = "done" /\ fn \in {"convert", "convert_miden_trace"}

\* C22: the matrix convert returns satisfies the column-0 increment
\* constraint on every pair of consecutive rows, the rewritten last row of
\* the source and every padding row included.
C22_Claim ==
    (ConvertDone /\ converted.ok)
       => \A i \in 1..(MatrixHeight(converted.matrix) - 1) :
             IncrementAirEval(MatrixRow(converted.matrix, i),
                              MatrixRow(converted.matrix, i + 1), TRUE)

\* the padded sizes test_power_of_two_padding expects
ExpectedPadded(h) ==
    CASE h = 10 -> 16 [] h = 64 -> 64 [] h = 100 -> 128 [] h = 127 -> 128
      [] h = 128 -> 128 [] h = 200 -> 256

\* C23: convert returns Err(EmptyTrace) exactly when the source has no rows
\* or no columns; otherwise the matrix has the source's width, its height is
\* the least power of two that is at least the source's height (16 for 10,
\* 64 for 64, 128 for 100, 127 and 128, 256 for 200), every row beyond the
\* source's height is zero, and trace_stats reports padding_rows =
\* padded_height - original_height and log_height = log2(padded_height).
C23_ConvertShape ==
    /\ ConvertDone =>
          /\ ~converted.ok <=> (miden_trace.length = 0 \/ miden_trace.width = 0)
          /\ ~converted.ok => converted.err = "EmptyTrace"
          /\ converted.ok =>
                LET m == converted.matrix
                    padded == MatrixHeight(m)
                IN  /\ m.width = miden_trace.width
                    /\ Len(m.values) = padded * m.width
                    /\ padded \in PowersOfTwo
                    /\ padded >= miden_trace.length
                    /\ padded < 2 * miden_trace.length
                    /\ miden_trace.length \in TestSizes
                          => padded = ExpectedPadded(miden_trace.length)
                    /\ \A r \in (miden_trace.length + 1)..padded :
                          \A c \in 1..m.width : MatrixRow(m, r)[c] = 0
    /\ (pc = "done" /\ fn = "trace_stats") =>
          /\ stats.original_height = miden_trace.length
          /\ stats.width = miden_trace.width
          /\ stats.padded_height \in PowersOfTwo
          /\ stats.padded_height >= stats.original_height
          /\ stats.original_height > 0 => stats.padded_height < 2 * stats.original_height
          /\ stats.padding_rows = stats.padded_height - stats.original_height
          /\ 2 ^ stats.log_height = stats.padded_height

\* a source of 100 rows has been converted to 128 rows, 28 of them padding
C23_Witness ==
    /\ ConvertDone
    /\ converted.ok
    /\ miden_trace.length = 100
    /\ MatrixHeight(converted.matrix) = 128

-----------------------------------------------------------------------------
(* The claim about the WASM entry point.                                   *)

\* F(1) .. F(6)
FibonacciTable == <<1, 1, 2, 3, 5, 8>>

WasmRangeErrors == { "n must be between 1 and 4 for minimal WASM proof",
                     "n must be between 1 and 6 for WASM" }

\* C30: prove_fibonacci(n, expected_result) returns Ok exactly when n is in
\* 1..6 and expected_result is F(n); n = 0 and n > 6 give a range error
\* whatever expected_result is, n in 1..4 gives what prove_fibonacci_minimal
\* gives, and a wrong expected_result for n in 1..6 gives the mismatch error.
C30_WasmProveFibonacci ==
    (pc = "done" /\ fn = "fib_wasm::prove_fibonacci") =>
       /\ wasm_result.ok <=>
             (wasm_n \in 1..6 /\ wasm_expected = U32(FibonacciTable[wasm_n]))
       /\ (wasm_n = 0 \/ wasm_n > 6) =>
             (~wasm_result.ok /\ wasm_result.text \in WasmRangeErrors)
       /\ wasm_n \in 1..4 =>
             wasm_result = prove_fibonacci_minimal(wasm_n, wasm_expected)
       /\ (wasm_n \in 1..6 /\ wasm_expected # U32(FibonacciTable[wasm_n])) =>
             /\ ~wasm_result.ok
             /\ wasm_result.text = "F(n) = actual, not expected"
             /\ wasm_result.actual = U32(FibonacciTable[wasm_n])

\* prove_fibonacci(6, 8) has returned Ok
C30_Witness ==
    /\ pc = "done"
    /\ fn = "fib_wasm::prove_fibonacci"
    /\ wasm_n = 6
    /\ wasm_expected = U32(8)
    /\ wasm_result.ok

-----------------------------------------------------------------------------
(* The claims about the order of the steps, the dispatcher and the         *)
(* configuration of the entry points.                                      *)

\* the steps of an entry point, in the order of its body
EntrySteps ==
    <<"val_mmcs", "create_benchmark_fri_params", "generate_trace_rows", "pcs",
      "challenger", "config", "prove", "report_proof_size", "verify">>

IsEntryStep(step) == \E i \in 1..Len(EntrySteps) : EntrySteps[i] = step

\* the steps of the entry point among the calls made so far
StepsTaken == SelectSeq(calls, IsEntryStep)

\* C24: an entry point takes its steps in the order MMCS and FRI parameters,
\* trace (with extra_capacity_bits = fri_params.log_blowup), PCS, challenger
\* and configuration, prove, report_proof_size, verify; verify gets the
\* configuration, the AIR and the empty public values prove got, the proof
\* reported is the proof verified, and the result is what verify says of
\* that proof.
C24_FixedOrder ==
    entry \in Entries =>
       /\ StepsTaken = SubSeq(EntrySteps, 1, Len(StepsTaken))
       /\ Called("generate_trace_rows") =>
             /\ Called("create_benchmark_fri_params")
             /\ h_trace.capacity_bits = fri_params.log_blowup
       /\ (Called("prove") /\ result # "panic") =>
             /\ proof.kind = "proof"
             /\ proof.config = config
             /\ proof.air = proof_goal
             /\ proof.public_values = <<>>
             /\ proof.commit = h_trace
       /\ Called("verify") =>
             /\ StepsTaken = EntrySteps
             /\ reported = proof
             /\ result = (IF proof.accepting THEN "Ok" ELSE "Err")
       /\ (pc \in {"main_report", "done"} /\ result # "panic") => Called("verify")
       /\ ~Called("verify") => result \in {"none", "panic"}

\* prove_m31_keccak has gone through all its steps and returned
C24_Witness ==
    /\ pc = "done"
    /\ fn = "prove_m31_keccak"
    /\ StepsTaken = EntrySteps
    /\ reported = proof
    /\ proof.kind = "proof"
    /\ result = "Ok"

\* an entry point holding a ProofObjective has generated its trace
DispatchedTrace ==
    /\ entry \in Entries
    /\ proof_goal.wrapper \in {"Blake3", "Keccak", "Poseidon2"}
    /\ Called("generate_trace_rows")

\* C25: for each variant of ProofObjective the width, the constraints of
\* eval and the trace of generate_trace_rows(num_hashes, extra_capacity_bits)
\* are those of the wrapped AIR used directly (for Poseidon2 the vectorized
\* generator), with both arguments passed on unchanged.
C25_DispatcherTransparent ==
    DispatchedTrace =>
       /\ ProofObjective_width(proof_goal) = AirWidth(proof_goal.air)
       /\ ProofObjective_eval(proof_goal) = AirEval(proof_goal.air)
       /\ h_trace = Direct_generate_trace_rows(Direct(proof_goal.air), num_hashes,
                                               fri_params.log_blowup)
       /\ proof_goal.wrapper = "Poseidon2" =>
             h_trace = generate_vectorized_trace_rows(num_hashes, fri_params.log_blowup)
       /\ h_trace.num_hashes = num_hashes
       /\ h_trace.capacity_bits = fri_params.log_blowup

\* the Poseidon2 variant has been proven for 5 hashes
C25_Witness ==
    /\ DispatchedTrace
    /\ pc = "done"
    /\ proof_goal = ProofObjective("Poseidon2", "VectorizedPoseidon2Air")
    /\ num_hashes = 5
    /\ result = "Ok"

\* the front-end has computed num_hashes
MainCounted == fn = "main" /\ pc # "idle"

\* C26: the front-end takes num_hashes = 2^L for Blake3, floor(2^L / 24) for
\* Keccak-f and 2^L * 8 for Poseidon2, L being log_trace_length (128, 5 and
\* 1024 for L = 7; 2^13 for Poseidon2 with L = 10), and the entry point
\* generates its trace for exactly that number.
C26_NumHashes ==
    MainCounted =>
       /\ args.objective = "Blake3Permutations"
             => num_hashes = 2 ^ args.log_trace_length
       /\ args.objective = "KeccakFPermutations"
             => /\ 24 * num_hashes <= 2 ^ args.log_trace_length
                /\ 24 * (num_hashes + 1) > 2 ^ args.log_trace_length
       /\ args.objective = "Poseidon2Permutations"
             => num_hashes = 8 * (2 ^ args.log_trace_length)
       /\ args.log_trace_length = 7 =>
             num_hashes = (CASE args.objective = "Blake3Permutations" -> 128
                             [] args.objective = "KeccakFPermutations" -> 5
                             [] args.objective = "Poseidon2Permutations" -> 1024)
       /\ (args.log_trace_length = 10 /\ args.objective = "Poseidon2Permutations")
             => num_hashes = 2 ^ 13
       /\ Called("generate_trace_rows") =>
             /\ h_trace.num_hashes = num_hashes
             /\ h_trace = generate_trace_rows(proof_goal, num_hashes, fri_params.log_blowup)

\* the front-end has proven 5 Keccak-f permutations for L = 7
C26_Witness ==
    /\ fn = "main"
    /\ pc = "done"
    /\ args.objective = "KeccakFPermutations"
    /\ args.log_trace_length = 7
    /\ h_trace.num_hashes = 5
    /\ exit_status = "success"

\* an entry point has built its configuration
Configured == entry \in Entries /\ Called("config")

\* C27: the PCS follows the field and the transcript follows the Merkle
\* hash.  BabyBear and KoalaBear get the FRI PCS with the chosen DFT and
\* Mersenne31 the Circle PCS without a DFT; a Keccak Merkle tree comes with
\* the serializing Keccak-256 challenger, a Poseidon2 Merkle tree with a
\* duplex challenger over the width-24 permutation, which is also the
\* permutation of the leaf sponge, the width-16 permutation being the one of
\* the compression.
C27_ConfigAssembly ==
    Configured =>
       /\ entry \in {"prove_monty31_keccak", "prove_monty31_poseidon2"} =>
             /\ config.pcs.kind = "TwoAdicFriPcs"
             /\ config.pcs.dft = dft
             /\ dft.choice \in {"Recursive", "Parallel"}
       /\ entry \in {"prove_m31_keccak", "prove_m31_poseidon2"} =>
             /\ config.pcs.kind = "CirclePcs"
             /\ config.pcs.dft.choice = "none"
       /\ entry \in {"prove_monty31_keccak", "prove_m31_keccak"} =>
             /\ config.pcs.mmcs.kind = "KeccakMerkleMmcs"
             /\ config.challenger.kind = "SerializingChallenger32"
             /\ config.challenger.hasher = "Keccak256Hash"
       /\ entry \in {"prove_monty31_poseidon2", "prove_m31_poseidon2"} =>
             /\ config.pcs.mmcs.kind = "Poseidon2MerkleMmcs"
             /\ config.challenger.kind = "DuplexChallenger"
             /\ config.challenger.perm = perm24
             /\ perm24.width = 24
             /\ config.pcs.mmcs.hash.inner = perm24
             /\ config.pcs.mmcs.compress.inner = perm16
             /\ perm16.width = 16
       /\ config.pcs.fri_params.mmcs.inner = config.pcs.mmcs
       /\ fn = "main" =>
             /\ args.field \in {"BabyBear", "KoalaBear"} <=> config.pcs.kind = "TwoAdicFriPcs"
             /\ args.field = "Mersenne31" <=> config.pcs.kind = "CirclePcs"
             /\ args.merkle_hash = "KeccakF" <=> config.pcs.mmcs.kind = "KeccakMerkleMmcs"
             /\ args.merkle_hash = "Poseidon2" <=> config.challenger.kind = "DuplexChallenger"
             /\ args.discrete_fourier_transform = "RecursiveDft"
                   => config.pcs.dft.choice = "Recursive"
             /\ args.discrete_fourier_transform = "Radix2DitParallel"
                   => config.pcs.dft.choice = "Parallel"

\* the front-end has configured KoalaBear with a Poseidon2 Merkle tree and
\* the recursive DFT
C27_Witness ==
    /\ Configured
    /\ fn = "main"
    /\ args.field = "KoalaBear"
    /\ args.merkle_hash = "Poseidon2"
    /\ config.pcs.dft.choice = "Recursive"
    /\ config.challenger.perm = perm24
    /\ config.pcs.mmcs.compress.inner = perm16

-----------------------------------------------------------------------------
(* The claims about the padding rows of the loader and the public values.  *)

\* C28: every padding row parse_trace adds has in columns 1..72 the cells of
\* the last kept row, and the kept rows are the parsed rows, unchanged and
\* in their order.
C28_PaddingCopiesLastRow ==
    Loaded =>
        LET parsed == RowMajorMatrix(ParsedData(Lines(file), Len(Lines(file))), NUM_COLS)
        IN  /\ \A r \in 1..KeptRows : MatrixRow(matrix, r) = MatrixRow(parsed, r)
            /\ \A r \in (KeptRows + 1)..MatrixHeight(matrix) :
                  \A c \in 2..NUM_COLS :
                     MatrixRow(matrix, r)[c] = MatrixRow(matrix, KeptRows)[c]

\* six rows were parsed, five kept and three padding rows added
C28_Witness ==
    /\ Loaded
    /\ num_rows = 6
    /\ KeptRows = 5
    /\ MatrixHeight(matrix) = 8
    /\ MatrixRow(matrix, 8)[2] = MatrixRow(matrix, 5)[2]
    /\ MatrixRow(matrix, 8)[2] # MatrixRow(matrix, 1)[2]

\* C29: for every u64 start_a and start_b, values of 2^32 and more and
\* values of the BabyBear modulus and more included, the public values that
\* prove_fibonacci_knowledge and verify_fibonacci_proof build for them,
\* BabyBear::new(x as u32), are the cells of row 0 of the trace generated
\* from the same inputs, F::from_u64(x).
C29_Claim ==
    ( /\ TraceGenerated
      /\ fn \in {"prove_and_verify_fibonacci", "prove_fibonacci_knowledge"} )
       => /\ ProverPublicValues(start_a, start_b, expected_result)[1] = trace[1].left
          /\ ProverPublicValues(start_a, start_b, expected_result)[2] = trace[1].right
          /\ VerifierPublicValues(start_a, start_b, expected_result)[1] = trace[1].left
          /\ VerifierPublicValues(start_a, start_b, expected_result)[2] = trace[1].right

=============================================================================
